---- MODULE Spec2Model ----
(***************************************************************************)
(* A model of the UnisonAI agent core: the tool contract and its parameter *)
(* validator (unisonai/tools/tool.py, unisonai/types.py), the response     *)
(* parser and the single-agent execution loop (unisonai/single_agent.py).  *)
(*                                                                         *)
(* Python values are records [t |-> type tag, n |-> number].  Numbers are  *)
(* kept in halves (n = 2 * value) so that 4, 4.0 and 4.5 are distinct      *)
(* values that still compare as Python compares them.  Exceptions are the  *)
(* classes derived from Exception; a raise is a value of the outcome of a  *)
(* call (field exc): exc = "none" means the call returned.                 *)
(***************************************************************************)
EXTENDS Integers, Sequences, FiniteSets, TLC

VARIABLES
    \* ---- tool contract (tool.py, types.py)
    parameters,      \* BaseTool._parameters: the declared schema
    kwargs,          \* the keyword arguments of the call under study
    run_raises,      \* whether the tool's own _run raises on this call
    called,          \* "none", "validate" or "execute": what has been called
    validation,      \* outcome of validate_parameters(kwargs)
    execution,       \* outcome of execute(**kwargs)
    \* ---- tool instances (single_agent.py, _initialize_tools)
    rawtools,        \* Single_Agent.rawtools of each agent: what was passed as tools
    tool_instances,  \* Single_Agent.tool_instances of each agent: the object registered
    objects,         \* the tool objects made so far, each with the state it keeps
    \* ---- response parser (single_agent.py)
    response,        \* the model text handed to the parser, a sequence of lines
    yaml_blocks,     \* what _extract_yaml_blocks returned
    commands,        \* the usable command blocks recovered from the text
    parsed,          \* whether the parser has run
    \* ---- single-agent execution loop (single_agent.py)
    max_iterations,  \* Single_Agent.max_iterations
    ask_user,        \* Single_Agent.ask_user
    output_file,     \* whether Single_Agent.output_file is set
    current_iteration, \* Single_Agent.current_iteration
    user_task,       \* Single_Agent.user_task
    stack,           \* the unleash calls in progress, outermost first
    llm_calls,       \* how many times llm.run has been called
    file,            \* the content of the output file
    returned,        \* the outcome of the unleash call that returned last
    task_result,     \* the outcome handed to the original caller of unleash
    emitted_final,   \* a response held a completion indicator
    transcript,      \* what llm.run did at each call so far, and each success of a tool
    raised,          \* how many exceptions reached the handler of an unleash call
    \* ---- bridged tool (mcp_tool.py)
    mcp_clients,     \* mcp_manager.clients: the keys of the live sessions
    mcp_schema,      \* the foreign parameter schema given to MCPTool.__init__
    mcp_tool,        \* the MCPTool instance: name, client_id, mcp_tool_name, parameters
    mcp_kwargs,      \* the keyword arguments of the call under study
    mcp_submitted,   \* what was submitted to the manager's event loop, in order
    mcp_call,        \* the call made on the tool and its outcome
    mcp_loop,        \* mcp_manager.loop: "running" or "closed"
    \* ---- clan (clan.py)
    clan_pc,         \* where Clan.unleash is
    members,         \* Clan.members: the roster
    plan,            \* Clan.plan
    member_plans,    \* member.plan, for each member
    plan_calls,      \* how many times _generate_plan has run the model
    current_round,   \* Clan.current_round
    clan_stack,      \* the agent loops in progress, the manager's first
    manager_result,  \* what manager.unleash returned to Clan.unleash
    clan_result      \* the outcome of Clan.unleash

toolVars == <<parameters, kwargs, run_raises, called, validation, execution,
              rawtools, tool_instances, objects>>
parserVars == <<response, yaml_blocks, commands, parsed>>
agentVars == <<max_iterations, ask_user, output_file, current_iteration, user_task,
               stack, llm_calls, file, returned, task_result, emitted_final,
               transcript, raised>>
bridgeVars == <<mcp_clients, mcp_schema, mcp_tool, mcp_kwargs, mcp_submitted, mcp_call,
                mcp_loop>>
clanVars == <<clan_pc, members, plan, member_plans, plan_calls, current_round, clan_stack,
              manager_result, clan_result>>
vars == <<toolVars, parserVars, agentVars, bridgeVars, clanVars>>

(***************************************************************************)
(* Bounds.                                                                 *)
(***************************************************************************)
\* numbers range over 4 .. 4 + MaxExtra/2 (in halves: 8 .. 8 + MaxExtra)
MaxExtra == 1
\* longest model text, in lines, the parser is run on
MaxLines == 5
\* largest max_iterations an agent is configured with
MaxIter == 2
\* the depth of nested unleash calls at which Python raises RecursionError
MaxDepth == 2
\* the number of model invocations after which the model is not run further
MaxCalls == 3
\* the number of model invocations when the model answers with BlockResponses
MaxBlockCalls == 2
\* how deep send_message deliveries nest, the manager's loop included
MaxClanDepth == 3

(***************************************************************************)
(* Python values                                                           *)
(***************************************************************************)
None == [t |-> "none", n |-> 0]
PyInt(k) == [t |-> "int", n |-> 2 * k]
PyFloatHalves(h) == [t |-> "float", n |-> h]
PyStr == [t |-> "str", n |-> 0]
PyTrue == [t |-> "bool", n |-> 2]
PyList == [t |-> "list", n |-> 0]
PyDict == [t |-> "dict", n |-> 0]

NumHalves == (2 * 4)..(2 * 4 + MaxExtra)
Numbers == {PyFloatHalves(h) : h \in NumHalves}
             \cup {[t |-> "int", n |-> h] : h \in {x \in NumHalves : x % 2 = 0}}
Values == Numbers \cup {None, PyStr, PyTrue, PyList, PyDict}

\* isinstance(value, (int, float)); bool is a subclass of int
IsNumber(v) == v.t \in {"int", "float", "bool"}
\* Python ==: numbers compare by value across int, float and bool
PyEq(v, w) == IF IsNumber(v) /\ IsNumber(w) THEN v.n = w.n ELSE v = w
\* value in choices
PyIn(v, list) == \E i \in 1..Len(list) : PyEq(v, list[i])

ToolParameterType == {"string", "integer", "float", "boolean", "list", "dict", "any"}

NoChoices == [given |-> FALSE, list |-> <<>>]
Choices(list) == [given |-> TRUE, list |-> list]

ToolParameter(name, param_type, default_value, required, min_value, max_value, choices) ==
    [name |-> name, param_type |-> param_type, default_value |-> default_value,
     required |-> required, min_value |-> min_value, max_value |-> max_value,
     choices |-> choices]

(***************************************************************************)
(* ToolParameter.validate_value                                            *)
(***************************************************************************)
\* the type check with an integer parameter refusing every float
TypeCheckFailsNoFloat(param, value) ==
    CASE param.param_type = "string" -> value.t # "str"
      [] param.param_type = "integer" -> value.t \notin {"int", "bool"}
      [] param.param_type = "float" -> ~IsNumber(value)
      [] param.param_type = "boolean" -> value.t # "bool"
      [] param.param_type = "list" -> value.t # "list"
      [] param.param_type = "dict" -> value.t # "dict"
      [] OTHER -> FALSE

TypeCheckFails(param, value) ==
    CASE param.param_type = "string" -> value.t # "str"
      [] param.param_type = "integer" ->
            \/ ~IsNumber(value)
            \* a float that is not actually an integer
            \/ (value.t = "float" /\ value.n % 2 # 0)
      [] param.param_type = "float" -> ~IsNumber(value)
      [] param.param_type = "boolean" -> value.t # "bool"
      [] param.param_type = "list" -> value.t # "list"
      [] param.param_type = "dict" -> value.t # "dict"
      [] OTHER -> FALSE

RangeCheckFails(param, value) ==
    /\ param.param_type \in {"integer", "float"}
    /\ \/ (param.min_value # None /\ value.n < param.min_value.n)
       \/ (param.max_value # None /\ value.n > param.max_value.n)

ChoicesCheckFails(param, value) ==
    param.choices.given /\ ~PyIn(value, param.choices.list)

validate_value(param, value) ==
    IF param.required /\ value = None THEN FALSE
    ELSE IF value = None THEN TRUE
    ELSE IF TypeCheckFails(param, value) THEN FALSE
    ELSE IF RangeCheckFails(param, value) THEN FALSE
    ELSE IF ChoicesCheckFails(param, value) THEN FALSE
    ELSE TRUE

(***************************************************************************)
(* BaseTool.validate_parameters                                            *)
(***************************************************************************)
\* kwargs.get(name)
Get(kw, name) == IF name \in DOMAIN kw THEN kw[name] ELSE None

\* a resolution in which a declared default replaces the caller's value
EffectiveValueDefaultFirst(param, kw) ==
    IF param.default_value # None THEN param.default_value ELSE Get(kw, param.name)

\* the value the validator works with: the caller's, or the default
EffectiveValue(param, kw) ==
    IF Get(kw, param.name) = None /\ param.default_value # None
    THEN param.default_value
    ELSE Get(kw, param.name)

\* validated_params[name] = value
SetItem(d, name, value) == (name :> value) @@ d

EmptyDict == [x \in {} |-> None]

\* the loop body without the errors.append of line 152
ValidateStepNoAppend(acc, param, kw) ==
    LET value == EffectiveValue(param, kw) IN
    IF ~validate_value(param, value)
    THEN acc
    ELSE [acc EXCEPT !.validated_params = SetItem(@, param.name, value)]

\* the loop body reporting only the first offending parameter
ValidateStepFirstOnly(acc, param, kw) ==
    LET value == EffectiveValue(param, kw) IN
    IF ~validate_value(param, value)
    THEN IF param.required /\ acc.errors = <<>>
         THEN [acc EXCEPT !.errors = Append(@, param.name)]
         ELSE acc
    ELSE [acc EXCEPT !.validated_params = SetItem(@, param.name, value)]

\* one turn of the for loop over self._parameters
ValidateStep(acc, param, kw) ==
    LET value == EffectiveValue(param, kw) IN
    IF ~validate_value(param, value)
    THEN IF param.required
         THEN [acc EXCEPT !.errors = Append(@, param.name)]
         ELSE acc
    ELSE [acc EXCEPT !.validated_params = SetItem(@, param.name, value)]

RECURSIVE ValidateLoop(_, _, _, _)
ValidateLoop(params, kw, i, acc) ==
    IF i > Len(params) THEN acc
    ELSE ValidateLoop(params, kw, i + 1, ValidateStep(acc, params[i], kw))

\* validation that hands every key of the call on to the result
validate_parameters_passthrough(params, kw) ==
    LET acc == ValidateLoop(params, kw, 1, [validated_params |-> EmptyDict, errors |-> <<>>]) IN
    IF acc.errors # <<>>
    THEN [exc |-> "ValueError", errors |-> acc.errors, ret |-> EmptyDict]
    ELSE [exc |-> "none", errors |-> <<>>, ret |-> acc.validated_params @@ kw]

\* outcome: exc = "ValueError" with the offending names in errors, or
\* exc = "none" with the returned mapping in ret
validate_parameters(params, kw) ==
    LET acc == ValidateLoop(params, kw, 1, [validated_params |-> EmptyDict, errors |-> <<>>]) IN
    IF acc.errors # <<>>
    THEN [exc |-> "ValueError", errors |-> acc.errors, ret |-> EmptyDict]
    ELSE [exc |-> "none", errors |-> <<>>, ret |-> acc.validated_params]

(***************************************************************************)
(* BaseTool.execute                                                        *)
(***************************************************************************)
\* an error message is the sequence of its parts; <<>> is error=None
NoError == <<>>
NoResult == "None"

ToolExecutionResult(success, result, error) ==
    [success |-> success, result |-> result, error |-> error,
     execution_time |-> "elapsed"]

\* the tool's own _run: raises, or returns a text
RunTool(args, raises) ==
    IF raises THEN [exc |-> "RuntimeError", ret |-> NoResult]
    ELSE [exc |-> "none", ret |-> "tool output"]

\* what _run was given as keyword arguments, if it was called
NotRun == [called |-> FALSE, args |-> EmptyDict]
RunWith(args) == [called |-> TRUE, args |-> args]

\* str(e) of the ValueError of line 158
ValidationMessage(errors) == <<"Parameter validation failed">> \o errors

\* execute without the try/except of lines 166 and 181
executeNoCatch(params, kw, raises) ==
    LET v == validate_parameters(params, kw) IN
    IF v.exc # "none"
    THEN [exc |-> v.exc, ret |-> ToolExecutionResult(FALSE, NoResult, NoError), run |-> NotRun]
    ELSE LET r == RunTool(v.ret, raises) IN
         [exc |-> r.exc,
          ret |-> ToolExecutionResult(r.exc = "none", r.ret, NoError),
          run |-> RunWith(v.ret)]

execute(params, kw, raises) ==
    LET v == validate_parameters(params, kw) IN
    IF v.exc # "none"
    THEN \* except Exception as e, raised by validate_parameters
         [exc |-> "none",
          ret |-> ToolExecutionResult(FALSE, NoResult,
                     <<"Tool execution failed">> \o ValidationMessage(v.errors)),
          run |-> NotRun]
    ELSE LET r == RunTool(v.ret, raises) IN
         IF r.exc # "none"
         THEN \* except Exception as e, raised by _run
              [exc |-> "none",
               ret |-> ToolExecutionResult(FALSE, NoResult, <<"Tool execution failed", r.exc>>),
               run |-> RunWith(v.ret)]
         ELSE [exc |-> "none",
               ret |-> ToolExecutionResult(TRUE, r.ret, NoError),
               run |-> RunWith(v.ret)]

(***************************************************************************)
(* Response parser (single_agent.py).  A model text is a sequence of       *)
(* lines; a line is a string of the alphabet below, read through the       *)
(* predicates that the two regular expressions and the YAML loader look    *)
(* at.                                                                     *)
(***************************************************************************)
\* In a line, ''' stands for the three backquotes of a code fence.
\* an opening fence tagged ya?ml, any case, then only white space up to the
\* end of the line
IsOpener(l) == l \in {"'''yaml", "'''yml", "'''YAML", "'''YML"}
\* the line starts with a fence (a newline and a fence close a fenced block)
StartsFence(l) == l \in {"'''", "'''python", "'''yaml", "'''yml", "'''YAML", "'''YML"}
\* white space only
IsBlank(l) == l \in {"", "  "}
\* starts with white space and is not blank
IsIndented(l) == l \in {"  reasoning", "  {\"k\": \"v\"}", "  name: tool_a"}
\* an indented line that holds ": "
HasColon(l) == l \in {"  {\"k\": \"v\"}", "  name: tool_a"}
\* the line without its leading white space (str.strip on a block's first line)
Unindent(l) ==
    CASE l = "  reasoning" -> "reasoning"
      [] l = "  {\"k\": \"v\"}" -> "{\"k\": \"v\"}"
      [] l = "  name: tool_a" -> "name: tool_a"
      [] OTHER -> l
\* the line holds thoughts:\s*>
HasThoughts(l) == l = "thoughts: >"
\* the next line begins with a character that is not white space
StartsText(l) == ~IsBlank(l) /\ ~IsIndented(l)
\* lower-cased, the line holds one of the completion indicators
HasIndicator(l) == l \in {"name: pass_result", "In summary, the task is done."}

\* a top-level "key: value" line, its key and its value
YStr(text) == [kind |-> "str", s |-> text, d |-> EmptyDict]
YMap(d) == [kind |-> "dict", s |-> "", d |-> d]
KeyLines ==
    ("thoughts: >" :> [key |-> "thoughts", style |-> "folded", val |-> YStr("")])
 @@ ("params: >" :> [key |-> "params", style |-> "folded", val |-> YStr("")])
 @@ ("name: pass_result" :> [key |-> "name", style |-> "plain", val |-> YStr("pass_result")])
 @@ ("name: ask_user" :> [key |-> "name", style |-> "plain", val |-> YStr("ask_user")])
 @@ ("name: tool_a" :> [key |-> "name", style |-> "plain", val |-> YStr("tool_a")])
 @@ ("name: nonexistent_tool" :> [key |-> "name", style |-> "plain", val |-> YStr("nonexistent_tool")])
 @@ ("params: {result: X}" :> [key |-> "params", style |-> "flow", val |-> YMap("result" :> "X")])
 @@ ("params: {k: v}" :> [key |-> "params", style |-> "flow", val |-> YMap("k" :> "v")])
 @@ ("params: {k: 4.5}" :> [key |-> "params", style |-> "flow", val |-> YMap("k" :> "4.5")])
 @@ ("params: {question: Q}" :> [key |-> "params", style |-> "flow", val |-> YMap("question" :> "Q")])
IsKeyLine(l) == l \in DOMAIN KeyLines

\* ---- re.findall(yaml_pattern, response, re.DOTALL | re.IGNORECASE)
\* the least index >= j of a line that starts with a fence, or 0
RECURSIVE FirstFence(_, _)
FirstFence(lines, j) ==
    IF j > Len(lines) THEN 0
    ELSE IF StartsFence(lines[j]) THEN j
    ELSE FirstFence(lines, j + 1)

\* the last line of the run of blank lines that follows line i (i if none)
RECURSIVE BlankRun(_, _)
BlankRun(lines, i) ==
    IF i + 1 <= Len(lines) /\ IsBlank(lines[i + 1]) THEN BlankRun(lines, i + 1) ELSE i

\* match.strip(): leading and trailing blank lines and the first line's indent
RECURSIVE DropBlankHead(_)
DropBlankHead(block) ==
    IF block # <<>> /\ IsBlank(Head(block)) THEN DropBlankHead(Tail(block)) ELSE block
RECURSIVE DropBlankTail(_)
DropBlankTail(block) ==
    IF block # <<>> /\ IsBlank(block[Len(block)])
    THEN DropBlankTail(SubSeq(block, 1, Len(block) - 1)) ELSE block
Strip(block) ==
    LET b == DropBlankTail(DropBlankHead(block)) IN
    IF b = <<>> THEN b ELSE <<Unindent(Head(b))>> \o Tail(b)

\* the match of the pattern that starts at opener line i, if there is one:
\* \s* takes the blank lines after the opener, (.*?) runs up to the first
\* later line that starts with a fence
FenceMatch(lines, i) ==
    LET m == BlankRun(lines, i)
        f == FirstFence(lines, m + 2) IN
    IF f # 0 THEN [found |-> TRUE, body |-> SubSeq(lines, m + 1, f - 1), close |-> f]
    ELSE IF m > i /\ m + 1 <= Len(lines) /\ StartsFence(lines[m + 1])
         THEN [found |-> TRUE, body |-> <<lines[m]>>, close |-> m + 1]
         ELSE [found |-> FALSE, body |-> <<>>, close |-> 0]

RECURSIVE FencedBlocks(_, _)
FencedBlocks(lines, i) ==
    IF i > Len(lines) THEN <<>>
    ELSE IF ~IsOpener(lines[i]) THEN FencedBlocks(lines, i + 1)
    ELSE LET mt == FenceMatch(lines, i) IN
         IF mt.found THEN <<Strip(mt.body)>> \o FencedBlocks(lines, mt.close + 1)
         ELSE FencedBlocks(lines, i + 1)

\* ---- re.findall(r'(thoughts:\s*>.*?(?=\n\S|\Z))', response, DOTALL)
\* the last line of the block that starts at line i: the line before the
\* next line that begins with text, or the last line of the response
RECURSIVE BareEnd(_, _)
BareEnd(lines, i) ==
    IF i + 1 <= Len(lines) /\ ~StartsText(lines[i + 1]) THEN BareEnd(lines, i + 1) ELSE i

RECURSIVE BareBlocks(_, _)
BareBlocks(lines, i) ==
    IF i > Len(lines) THEN <<>>
    ELSE IF ~HasThoughts(Unindent(lines[i])) THEN BareBlocks(lines, i + 1)
    ELSE LET e == BareEnd(lines, i) IN
         <<(<<Unindent(lines[i])>> \o SubSeq(lines, i + 1, e))>> \o BareBlocks(lines, e + 1)

\* the extraction with the fallback of lines 402-407 always taken
extract_yaml_blocks_both(lines) == FencedBlocks(lines, 1) \o BareBlocks(lines, 1)

\* Single_Agent._extract_yaml_blocks
extract_yaml_blocks(lines) ==
    LET fenced == FencedBlocks(lines, 1) IN
    IF fenced # <<>> THEN fenced ELSE BareBlocks(lines, 1)

\* ---- yaml.safe_load(yaml_block), line by line
YamlStart == [kind |-> "none", m |-> [x \in {} |-> YStr("")], last |-> "", style |-> ""]
YamlError(st) == [st EXCEPT !.kind = "error"]

YamlLine(st, l) ==
    IF st.kind = "error" \/ IsBlank(l) THEN st
    ELSE IF IsIndented(l) THEN
        \* a line that continues what came before
        CASE st.kind = "none" -> [st EXCEPT !.kind = "scalar"]
          [] st.kind = "scalar" -> st
          [] st.kind = "map" /\ st.style = "folded" ->
                [st EXCEPT !.m = SetItem(@, st.last, YStr("folded text"))]
          [] st.kind = "map" /\ st.style = "plain" /\ ~HasColon(l) ->
                [st EXCEPT !.m = SetItem(@, st.last,
                                   YStr(st.m[st.last].s \o " " \o Unindent(l)))]
          [] OTHER -> YamlError(st)
    ELSE IF IsKeyLine(l) THEN
        IF st.kind \in {"none", "map"}
        THEN [kind |-> "map", m |-> SetItem(st.m, KeyLines[l].key, KeyLines[l].val),
              last |-> KeyLines[l].key, style |-> KeyLines[l].style]
        ELSE YamlError(st)
    ELSE IF StartsFence(l) THEN YamlError(st)
    ELSE \* a line of plain text in the first column
        IF st.kind \in {"none", "scalar"} THEN [st EXCEPT !.kind = "scalar"]
        ELSE YamlError(st)

RECURSIVE YamlFold(_, _)
YamlFold(st, block) ==
    IF block = <<>> THEN st ELSE YamlFold(YamlLine(st, Head(block)), Tail(block))

\* kind: "map" (a dict, in m), "none" (None), "scalar" (a str), "error" (YAMLError)
safe_load(block) ==
    LET st == YamlFold(YamlStart, block) IN [kind |-> st.kind, m |-> st.m]

\* the block can be dispatched: it parsed to a dict that has a name (lines
\* 373-378 and 413-416)
Usable(block) == safe_load(block).kind = "map" /\ "name" \in DOMAIN safe_load(block).m

NoParams == [kind |-> "absent", s |-> "", d |-> EmptyDict]
\* tool_name and params as _execute_tool_from_yaml reads them (lines 418-419)
CommandOf(block) ==
    LET y == safe_load(block).m IN
    [name |-> y["name"].s,
     params |-> IF "params" \in DOMAIN y THEN y["params"] ELSE NoParams]

RECURSIVE CommandsOf(_)
CommandsOf(blocks) ==
    IF blocks = <<>> THEN <<>>
    ELSE (IF Usable(Head(blocks)) THEN <<CommandOf(Head(blocks))>> ELSE <<>>)
            \o CommandsOf(Tail(blocks))


(***************************************************************************)
(* Single-agent execution loop (single_agent.py).  unleash calls itself    *)
(* from the dispatch of a tool result or a user answer, so the calls in    *)
(* progress form a stack of frames; the agent's fields (current_iteration, *)
(* user_task) are shared by all of them.                                   *)
(***************************************************************************)
Identity == "agent"

\* the registry built by _initialize_tools: one tool, one required string
ToolInstances ==
    "tool_a" :> <<ToolParameter("k", "string", None, TRUE, None, None, NoChoices)>>

\* the value YAML resolves a plain scalar to
YamlScalar(tok) == IF tok = "4.5" THEN PyFloatHalves(2 * 4 + 1) ELSE PyStr
\* the keyword arguments of tool.execute(**params)
KwargsOf(d) == [k \in DOMAIN d |-> YamlScalar(d[k])]
\* params supports .get and ** (it is a dict; an absent params is {})
IsMapping(params) == params.kind \in {"dict", "absent"}

TaskResult(success, res, iterations_used, error) ==
    [success |-> success, result |-> res, agent_identity |-> Identity,
     execution_time |-> "elapsed", iterations_used |-> iterations_used,
     error |-> error]

NoOutcome == [exc |-> "none", done |-> FALSE, ret |-> TaskResult(FALSE, <<>>, 0, NoError)]

\* unleash without the try/except of lines 194-210
unleash_uncaught(e, iterations) ==
    [exc |-> e, done |-> TRUE, ret |-> TaskResult(FALSE, <<>>, iterations, NoError)]

\* unleash, lines 196-210: the exception e becomes a failed TaskResult
unleash_except(e, iterations) ==
    [exc |-> "none", done |-> TRUE,
     ret |-> TaskResult(FALSE, <<"Task execution failed due to critical error">>,
                        iterations, <<"Task execution failed", e>>)]

\* _execute_task, lines 231-237
execute_task_return(resp, iterations) ==
    [exc |-> "none", done |-> TRUE, ret |-> TaskResult(TRUE, resp, iterations, NoError)]

\* _is_task_complete
RECURSIVE is_task_complete(_)
is_task_complete(resp) ==
    resp # <<>> /\ (HasIndicator(Head(resp)) \/ is_task_complete(Tail(resp)))

\* _save_results: the record that replaces the content of the output file
NoFile == [written |-> FALSE, agent |-> "", task |-> "", result |-> <<>>]
SavedRecord(task, res) == [written |-> TRUE, agent |-> Identity, task |-> task, result |-> res]

\* ---- the dispatch of one parsed block.  The outcome says what the handler
\* returned (ret), what it raised (exc), whether it wrote the output file
\* (save) and whether it called unleash again (call, with task).
Handled(ret) == [exc |-> "none", ret |-> ret, save |-> <<>>, call |-> FALSE, task |-> ""]
Raises(e) == [exc |-> e, ret |-> FALSE, save |-> <<>>, call |-> FALSE, task |-> ""]
Continues(task) == [exc |-> "none", ret |-> TRUE, save |-> <<>>, call |-> TRUE, task |-> task]

\* _handle_ask_user without the except clause of lines 449-452
handle_ask_user_uncaught(params, enabled, input) ==
    IF ~enabled THEN Handled(FALSE)
    ELSE IF ~IsMapping(params) THEN Raises("AttributeError")
    ELSE CASE input = "answer" -> Continues("user answer")
           [] input = "interrupt" -> Raises("KeyboardInterrupt")
           [] OTHER -> Raises("EOFError")

\* _handle_ask_user; input is what input() does: "answer", "interrupt"
\* (KeyboardInterrupt) or "eof" (EOFError)
handle_ask_user(params, enabled, input) ==
    IF ~enabled THEN Handled(FALSE)
    ELSE IF ~IsMapping(params) THEN Raises("AttributeError")
    ELSE CASE input = "answer" -> Continues("user answer")
           [] input = "interrupt" -> Handled(FALSE)
           [] OTHER -> Raises("EOFError")

\* _handle_pass_result
handle_pass_result(params, has_output_file) ==
    IF ~IsMapping(params) THEN Raises("AttributeError")
    ELSE LET res == IF "result" \in DOMAIN params.d THEN <<params.d["result"]>>
                    ELSE <<"Task completed.">> IN
         [Handled(TRUE) EXCEPT !.save = IF has_output_file THEN <<res>> ELSE <<>>]

\* _execute_custom_tool without the registry lookup of lines 469-472
execute_custom_tool_any(tool_name, params, run_fails) ==
    IF ~IsMapping(params) THEN Handled(FALSE) ELSE Continues("Tool response")

\* _execute_custom_tool
execute_custom_tool(tool_name, params, run_fails) ==
    IF tool_name \notin DOMAIN ToolInstances THEN Handled(FALSE)
    ELSE IF ~IsMapping(params) THEN Handled(FALSE)   \* TypeError, caught at 503
    ELSE LET r == execute(ToolInstances[tool_name], KwargsOf(params.d), run_fails).ret IN
         IF r.success THEN Continues("Tool response") ELSE Handled(FALSE)

\* _execute_tool_from_yaml
execute_tool_from_yaml(y, enabled, has_output_file, input, run_fails) ==
    IF "name" \notin DOMAIN y THEN Handled(FALSE)
    ELSE LET tool_name == y["name"].s
             params == IF "params" \in DOMAIN y THEN y["params"] ELSE NoParams IN
         IF tool_name = "ask_user" THEN handle_ask_user(params, enabled, input)
         ELSE IF tool_name = "pass_result" THEN handle_pass_result(params, has_output_file)
         ELSE execute_custom_tool(tool_name, params, run_fails)

\* the body of the for loop without the except clause of lines 383-386
process_block_uncaught(block, enabled, has_output_file, input, run_fails) ==
    LET y == safe_load(block) IN
    IF y.kind = "error" THEN Raises("YAMLError")
    ELSE IF y.kind # "map" THEN Handled(FALSE)
    ELSE execute_tool_from_yaml(y.m, enabled, has_output_file, input, run_fails)

\* the body of the for loop of _process_response, for one block
process_block(block, enabled, has_output_file, input, run_fails) ==
    LET y == safe_load(block) IN
    IF y.kind # "map" THEN Handled(FALSE)
    ELSE execute_tool_from_yaml(y.m, enabled, has_output_file, input, run_fails)

\* the block is a pass_result command
IsPassResult(block) ==
    Usable(block) /\ CommandOf(block).name = "pass_result"

\* ---- frames
NewFrame(task) ==
    [task |-> task, pc |-> "loop", response |-> <<>>, blocks |-> <<>>,
     tool_executed |-> FALSE, passed |-> FALSE]
Top == stack[Len(stack)]
Callers == SubSeq(stack, 1, Len(stack) - 1)
WithTop(f) == Append(Callers, f)

\* a return after which the dispatching frame passes over its next block
ReturnToSkipping(callers, out) ==
    /\ returned' = out
    /\ IF callers = <<>>
       THEN /\ task_result' = out
            /\ stack' = <<>>
       ELSE /\ task_result' = task_result
            /\ stack' = [callers EXCEPT ![Len(callers)].tool_executed = TRUE,
                                        ![Len(callers)].blocks =
                                            IF @ = <<>> THEN @ ELSE Tail(@)]

\* an unleash call returns out to the frames in callers: the original caller
\* receives it, a dispatching frame drops it and goes on with True
ReturnTo(callers, out) ==
    /\ returned' = out
    /\ IF callers = <<>>
       THEN /\ task_result' = out
            /\ stack' = <<>>
       ELSE /\ task_result' = task_result
            /\ stack' = [callers EXCEPT ![Len(callers)].tool_executed = TRUE]

\* the running unleash call ends in its except clause
FailTop(e, iterations) ==
    /\ raised' = raised + 1
    /\ ReturnTo(Callers, unleash_except(e, iterations))

\* unleash(task) is entered from the frames in callers: lines 191-192 and
\* _execute_task up to the loop; _initialize_llm may raise
Enter(callers, task, init_raises) ==
    /\ current_iteration' = 0
    /\ user_task' = task
    /\ IF init_raises
       THEN /\ raised' = raised + 1
            /\ ReturnTo(callers, unleash_except("LLMInitError", 0))
       ELSE /\ raised' = raised
            /\ stack' = Append(callers, NewFrame(task))
            /\ UNCHANGED <<returned, task_result>>

\* the transcript entry of a call of llm.run that raised
LLMRaised == <<"llm.run raised">>
\* the transcript entry of a tool.execute that returned success=True
ToolSucceeded == <<"tool.execute succeeded">>

\* the responses the model may give
Fenced(body) == <<"'''yaml">> \o body \o <<"'''">>
Responses ==
    {<<"Working on it.">>,
     <<"In summary, the task is done.">>,
     Fenced(<<"name: pass_result", "params: {result: X}">>),
     Fenced(<<"thoughts: >", "  reasoning", "name: pass_result", "params: >", "  {\"k\": \"v\"}">>),
     Fenced(<<"name: tool_a", "params: {k: v}">>),
     Fenced(<<"name: tool_a", "params: {k: 4.5}">>),
     Fenced(<<"name: nonexistent_tool">>),
     <<"In summary, the task is done.">> \o Fenced(<<"name: nonexistent_tool">>),
     Fenced(<<"name: ask_user", "params: {question: Q}">>)}

\* responses with several blocks, with blocks that cannot be dispatched and
\* with params that are not a mapping
BlockResponses ==
    {Fenced(<<"name: tool_a", "params: {k: v}">>)
        \o Fenced(<<"name: pass_result", "params: {result: X}">>),
     Fenced(<<"name: tool_a", "  name: tool_a">>) \o Fenced(<<"Working on it.">>)
        \o Fenced(<<"params: {k: v}">>)
        \o Fenced(<<"name: pass_result", "params: {result: X}">>),
     Fenced(<<"params: {k: v}">>),
     <<"In summary, the task is done.">> \o Fenced(<<"name: tool_a", "params: {k: 4.5}">>),
     Fenced(<<"name: ask_user", "params: {question: Q}">>)
        \o Fenced(<<"name: tool_a", "params: {k: v}">>),
     Fenced(<<"name: tool_a", "params: >", "  {\"k\": \"v\"}">>),
     Fenced(<<"name: pass_result", "params: >", "  {\"k\": \"v\"}">>)}

\* the agent before any call
AgentIdle ==
    /\ max_iterations = 0
    /\ ask_user = FALSE
    /\ output_file = FALSE
    /\ current_iteration = 0
    /\ user_task = ""
    /\ stack = <<>>
    /\ llm_calls = 0
    /\ file = NoFile
    /\ returned = NoOutcome
    /\ task_result = NoOutcome
    /\ emitted_final = FALSE
    /\ transcript = <<>>
    /\ raised = 0

(***************************************************************************)
(* Bridged tool (tools/mcp_tool.py): an MCPTool refers to a session of the *)
(* manager's registry by its key and runs the provider's tool on the       *)
(* manager's event loop.                                                   *)
(***************************************************************************)
\* a foreign parameter schema: properties is the properties mapping in its
\* order, a sequence of [name, info] where info maps some of the keys
\* "type" and "default" to their values; required is the list of required names
ForeignSchema(properties, required) == [properties |-> properties, required |-> required]
NoSchema == ForeignSchema(<<>>, {})
Property(name, info) == [name |-> name, info |-> info]

\* Field(name, description, default_value, required, field_type)
Field(name, default_value, required, field_type) ==
    [name |-> name, default_value |-> default_value, required |-> required,
     field_type |-> field_type]

\* param_info.get(key, default)
InfoGet(info, key, default) == IF key \in DOMAIN info THEN info[key] ELSE default

\* the mapping that passes the foreign tag on as it is
type_mapping_same(param_type) ==
    IF param_type \in ToolParameterType THEN param_type ELSE "string"

\* type_mapping.get(param_type, ToolParameterType.STRING), lines 57-66
type_mapping(param_type) ==
    CASE param_type = "string" -> "string"
      [] param_type = "integer" -> "integer"
      [] param_type = "number" -> "float"
      [] param_type = "boolean" -> "boolean"
      [] param_type = "array" -> "list"
      [] param_type = "object" -> "dict"
      [] OTHER -> "string"

\* the conversion that takes every parameter of a schema with a required
\* list as required
convert_all_required(mcp_parameters) ==
    [i \in 1..Len(mcp_parameters.properties) |->
        LET p == mcp_parameters.properties[i] IN
        Field(p.name, InfoGet(p.info, "default", None),
              mcp_parameters.required # {},
              type_mapping(InfoGet(p.info, "type", "string")))]

\* MCPTool._convert_mcp_parameters_to_fields
convert_mcp_parameters_to_fields(mcp_parameters) ==
    [i \in 1..Len(mcp_parameters.properties) |->
        LET p == mcp_parameters.properties[i] IN
        Field(p.name, InfoGet(p.info, "default", None),
              p.name \in mcp_parameters.required,
              type_mapping(InfoGet(p.info, "type", "string")))]

\* the parameter descriptors the tool validates against, one per Field
ParametersOf(fields) ==
    [i \in 1..Len(fields) |->
        ToolParameter(fields[i].name, fields[i].field_type, fields[i].default_value,
                      fields[i].required, None, None, NoChoices)]

\* the instance MCPTool.__init__ builds (lines 26-36)
MCPTool(name, description, client_id, mcp_tool_name, params) ==
    [name |-> name, description |-> description, client_id |-> client_id,
     mcp_tool_name |-> mcp_tool_name, params |-> params,
     parameters |-> ParametersOf(params)]

\* super().__init__() of the BaseTool that mcp_tool.py imports: the attributes
\* set before the call are the tool's afterwards (test_mcp.py, lines 110-117)
BaseToolInit(tool) == tool

\* MCPTool.__init__
mcp_init(name, description, mcp_parameters, client_id, mcp_tool_name) ==
    BaseToolInit(MCPTool(name, description, client_id, mcp_tool_name,
                         convert_mcp_parameters_to_fields(mcp_parameters)))

\* an error that does not keep the exception it was raised from
MCPToolExecutionErrorBare(message, tool_name, original_error) ==
    [exc |-> "MCPToolExecutionError", message |-> message, tool_name |-> tool_name,
     original_error |-> "", ret |-> NoResult]

\* MCPToolExecutionError(message, tool_name, original_error), mcp_errors.py
MCPToolExecutionError(message, tool_name, original_error) ==
    [exc |-> "MCPToolExecutionError", message |-> message, tool_name |-> tool_name,
     original_error |-> original_error, ret |-> NoResult]

\* asyncio.run_coroutine_threadsafe(client.execute_function(name, kwargs), loop)
Submission(mcp_tool_name, kw) == [function |-> mcp_tool_name, arguments |-> kw]

\* what the provider does with a submitted call
ProviderOutcomes == {"returns", "raises"}

\* MCPTool._run without the registry check of lines 93-97
mcp_run_unchecked(tool, clients, kw, provider) ==
    IF provider = "raises"
    THEN MCPToolExecutionError(<<"Failed to execute MCP tool '", tool.name, "': ",
                                  "provider error">>, tool.name, "provider error")
         @@ [submitted |-> <<Submission(tool.mcp_tool_name, kw)>>]
    ELSE [exc |-> "none", message |-> <<>>, tool_name |-> "", original_error |-> "",
          ret |-> "provider output",
          submitted |-> <<Submission(tool.mcp_tool_name, kw)>>]

\* MCPTool._run
mcp_run(tool, clients, kw, provider) ==
    IF tool.client_id \notin clients
    THEN MCPToolExecutionError(<<"MCP client '", tool.client_id, "' not found">>,
                               tool.name, "")
         @@ [submitted |-> <<>>]
    ELSE mcp_run_unchecked(tool, clients, kw, provider)

\* BaseTool.execute on the bridged tool: validation, then _run, in one try
mcp_execute(tool, clients, kw, provider) ==
    LET v == validate_parameters(tool.parameters, kw) IN
    IF v.exc # "none"
    THEN [exc |-> "none", submitted |-> <<>>,
          ret |-> ToolExecutionResult(FALSE, NoResult,
                     <<"Tool execution failed">> \o ValidationMessage(v.errors))]
    ELSE LET r == mcp_run(tool, clients, v.ret, provider) IN
         IF r.exc # "none"
         THEN [exc |-> "none", submitted |-> r.submitted,
               ret |-> ToolExecutionResult(FALSE, NoResult,
                          <<"Tool execution failed">> \o r.message)]
         ELSE [exc |-> "none", submitted |-> r.submitted,
               ret |-> ToolExecutionResult(TRUE, r.ret, NoError)]

NoTool == MCPTool("", "", "", "", <<>>)
NoCall == [op |-> "none"]

\* no bridged tool
BridgeIdle ==
    /\ mcp_clients = {}
    /\ mcp_schema = NoSchema
    /\ mcp_tool = NoTool
    /\ mcp_kwargs = EmptyDict
    /\ mcp_submitted = <<>>
    /\ mcp_call = NoCall
    /\ mcp_loop = "running"

(***************************************************************************)
(* Clan (clan.py): the coordinator makes a plan with the manager's model,  *)
(* hands it to every member and starts the manager's loop.                 *)
(***************************************************************************)
\* the agents a clan is built from, by identity; the manager is Clan.manager
Agents == {"Manager", "Worker"}
ManagerIdentity == "Manager"
NoPlan == <<"None">>

\* a planning response is a sequence of parts; a part is a <think> section
\* or plain text
IsThink(part) == part = "<think>draft</think>"
PlanResponses ==
    {<<"A delegates X to B">>,
     <<"<think>draft</think>", "A delegates X to B">>,
     <<"A delegates X to B", "<think>draft</think>", "B reports to A">>}

\* re.sub(r"<think>(.*?)</think>", "", plan_response, flags=re.DOTALL)
RECURSIVE RemoveThink(_)
RemoveThink(parts) ==
    IF parts = <<>> THEN <<>>
    ELSE (IF IsThink(Head(parts)) THEN <<>> ELSE <<Head(parts)>>) \o RemoveThink(Tail(parts))

\* a return that passes on the success flag and the text of the TaskResult
\* that manager.unleash returned
clan_success_reflecting(round) ==
    [exc |-> "none", done |-> TRUE,
     ret |-> [success |-> clan_stack[Len(clan_stack)].ok,
              result |-> <<clan_stack[Len(clan_stack)].out>>,
              agent_identity |-> "Clan", execution_time |-> "elapsed",
              iterations_used |-> round, error |-> NoError]]

\* Clan.unleash, lines 156-162
clan_success(round) ==
    [exc |-> "none", done |-> TRUE,
     ret |-> [success |-> TRUE, result |-> <<"Clan successfully completed goal">>,
              agent_identity |-> "Clan", execution_time |-> "elapsed",
              iterations_used |-> round, error |-> NoError]]

\* Clan.unleash without the try/except of lines 135 and 164
clan_uncaught(e, round) ==
    [exc |-> e, done |-> TRUE,
     ret |-> [success |-> FALSE, result |-> <<>>,
              agent_identity |-> "Clan", execution_time |-> "elapsed",
              iterations_used |-> round, error |-> NoError]]

\* Clan.unleash, lines 164-175
clan_except(e, round) ==
    [exc |-> "none", done |-> TRUE,
     ret |-> [success |-> FALSE, result |-> <<"Clan mission failed due to error">>,
              agent_identity |-> "Clan", execution_time |-> "elapsed",
              iterations_used |-> round, error |-> <<"Clan execution failed", e>>]]

\* what llm.run of the manager's model does when the plan is asked for
PlanOutcomes ==
    {[kind |-> "raises", response |-> <<>>]}
      \cup {[kind |-> "returns", response |-> r] : r \in PlanResponses}

\* _generate_plan with a second try when the model raises
generate_plan_retry(outcome) ==
    IF outcome.kind = "raises"
    THEN [exc |-> "LLMError", calls |-> 2, plan |-> NoPlan]
    ELSE [exc |-> "none", calls |-> 1, plan |-> RemoveThink(outcome.response)]

\* _generate_plan; calls counts the calls of llm.run
generate_plan(outcome) ==
    IF outcome.kind = "raises"
    THEN [exc |-> "LLMError", calls |-> 1, plan |-> NoPlan]
    ELSE [exc |-> "none", calls |-> 1, plan |-> RemoveThink(outcome.response)]

\* _distribute_plan: member.plan = self.plan for every member of the roster
distribute_plan(roster, the_plan, plans) ==
    [a \in Agents |-> IF a \in roster THEN the_plan ELSE plans[a]]

\* ---- the agents' loops, as section 4.5 of the specification describes them
NoMessage == [agent_name |-> "", message |-> ""]
\* the loop an agent runs for a task
AgentFrame(agent, task) ==
    [agent |-> agent, task |-> task, context |-> "", pc |-> "running", out |-> "",
     ok |-> FALSE, sent |-> NoMessage]
\* send_message delivered to whoever is named, on the roster or not
route_any(roster, agent_name) ==
    IF agent_name \in Agents THEN <<agent_name>>
    ELSE IF agent_name = "worker" THEN <<"Worker">> ELSE <<>>
\* send_message routing: the member whose identity is exactly agent_name
route(roster, agent_name) ==
    IF agent_name \in roster THEN <<agent_name>> ELSE <<>>

\* manager.unleash has not returned
NoReturn == [returned |-> FALSE, success |-> FALSE, result |-> ""]

\* no clan
ClanIdle ==
    /\ clan_pc = "idle"
    /\ members = {}
    /\ plan = NoPlan
    /\ member_plans = [a \in Agents |-> NoPlan]
    /\ plan_calls = 0
    /\ current_round = 0
    /\ clan_stack = <<>>
    /\ manager_result = NoReturn
    /\ clan_result = NoOutcome

(***************************************************************************)
(* The tool contract on its own: a schema and a call are chosen, then      *)
(* validate_parameters or execute is called on them.                       *)
(***************************************************************************)
DefaultValues == {None, PyInt(4), PyStr}
RangeLimits == {<<None, None>>, <<PyInt(4), PyInt(4)>>}
ChoiceLists == {NoChoices, Choices(<<PyInt(4), PyStr>>)}

\* every descriptor the ToolParameter constructor accepts (types.py 52-56:
\* min_value and max_value only with a numeric type)
ParamSpecs(name) ==
    {ToolParameter(name, ty, d, r, rg[1], rg[2], ch) :
        ty \in ToolParameterType, d \in DefaultValues, r \in BOOLEAN,
        rg \in RangeLimits, ch \in ChoiceLists}

ValidParamSpecs(name) ==
    {p \in ParamSpecs(name) :
        (p.min_value # None \/ p.max_value # None) => p.param_type \in {"integer", "float"}}

SecondParamSpecs(name) ==
    {ToolParameter(name, "string", None, TRUE, None, None, NoChoices),
     ToolParameter(name, "integer", None, FALSE, None, None, NoChoices),
     ToolParameter(name, "integer", PyInt(4), TRUE, None, None, NoChoices)}

Schemas ==
    {<<>>} \cup {<<p>> : p \in ValidParamSpecs("a")}
           \cup {<<p, q>> : p \in ValidParamSpecs("a"), q \in SecondParamSpecs("b")}

\* the calls: "a" with any value or absent, "b" and the undeclared "x"
Dicts(name, vals) == {EmptyDict} \cup {name :> v : v \in vals}
KwargSets ==
    {a @@ b @@ x : a \in Dicts("a", Values), b \in Dicts("b", {PyStr, PyInt(4)}),
                   x \in Dicts("x", {PyStr})}

\* no agent has been constructed and no tool object made
NoAgents ==
    /\ rawtools = [a \in Agents |-> [kind |-> "unset", id |-> 0]]
    /\ tool_instances = [a \in Agents |-> 0]
    /\ objects = <<>>

NoValidation == [exc |-> "none", errors |-> <<>>, ret |-> EmptyDict]
NoExecution == [exc |-> "none", ret |-> ToolExecutionResult(FALSE, NoResult, NoError), run |-> NotRun]

ParserIdle ==
    /\ response = <<>>
    /\ yaml_blocks = <<>>
    /\ commands = <<>>
    /\ parsed = FALSE

ToolInit ==
    /\ parameters \in Schemas
    /\ kwargs \in KwargSets
    /\ run_raises = FALSE
    /\ called = "none"
    /\ validation = NoValidation
    /\ execution = NoExecution
    /\ NoAgents
    /\ ParserIdle
    /\ AgentIdle
    /\ BridgeIdle
    /\ ClanIdle

ValidateCall ==
    /\ called = "none"
    /\ called' = "validate"
    /\ validation' = validate_parameters(parameters, kwargs)
    /\ UNCHANGED <<parameters, kwargs, run_raises, execution>>
    /\ UNCHANGED <<rawtools, tool_instances, objects>>
    /\ UNCHANGED <<parserVars, agentVars, bridgeVars, clanVars>>

ExecuteCall ==
    /\ called = "none"
    /\ \E raises \in BOOLEAN :
          /\ run_raises' = raises
          /\ execution' = execute(parameters, kwargs, raises)
    /\ called' = "execute"
    /\ UNCHANGED <<parameters, kwargs, validation>>
    /\ UNCHANGED <<rawtools, tool_instances, objects>>
    /\ UNCHANGED <<parserVars, agentVars, bridgeVars, clanVars>>

ToolNext == ValidateCall \/ ExecuteCall

ToolSpec == ToolInit /\ [][ToolNext]_vars

(***************************************************************************)
(* Properties of the tool contract (under ToolSpec)                        *)
(***************************************************************************)
Elems(seq) == {seq[i] : i \in 1..Len(seq)}
Declared == {parameters[i].name : i \in 1..Len(parameters)}
Restrict(kw, names) == [k \in (DOMAIN kw) \cap names |-> kw[k]]

\* what it is for a value to conform to a declaration
TypeConforms(ty, v) ==
    CASE ty = "string" -> v.t = "str"
      [] ty = "integer" -> v.t \in {"int", "bool"} \/ (v.t = "float" /\ v.n % 2 = 0)
      [] ty = "float" -> v.t \in {"int", "bool", "float"}
      [] ty = "boolean" -> v.t = "bool"
      [] ty = "list" -> v.t = "list"
      [] ty = "dict" -> v.t = "dict"
      [] ty = "any" -> TRUE
InRange(p, v) ==
    (p.param_type \in {"integer", "float"} /\ IsNumber(v)) =>
        /\ (p.min_value # None => v.n >= p.min_value.n)
        /\ (p.max_value # None => v.n <= p.max_value.n)
InChoices(p, v) == p.choices.given => \E c \in Elems(p.choices.list) : PyEq(v, c)
Conforms(p, v) == TypeConforms(p.param_type, v) /\ InRange(p, v) /\ InChoices(p, v)

\* C1: execute always returns a ToolExecutionResult and never raises; when
\* validation fails or the tool's _run raises, the result has success=false
\* and an error message.
ExecuteNeverRaises ==
    called = "execute" =>
        /\ execution.exc = "none"
        /\ execution.ret.execution_time = "elapsed"
        /\ (validate_parameters(parameters, kwargs).exc # "none" \/ run_raises) =>
              (~execution.ret.success /\ execution.ret.error # NoError)

\* C1 witness: a call with an undeclared key reached _run, which raised.
ExecuteRunRaised ==
    /\ called = "execute" /\ run_raises /\ execution.run.called
    /\ "x" \in DOMAIN kwargs
    /\ ~execution.ret.success

Offending(p, kw) ==
    LET v == EffectiveValue(p, kw) IN
    IF v = None THEN p.required ELSE ~Conforms(p, v)

PlainFirst ==
    /\ Len(parameters) = 1
    /\ parameters[1].min_value = None /\ parameters[1].max_value = None
    /\ ~parameters[1].choices.given
    /\ Get(kwargs, "a") # None
Accepted == validation.exc = "none" /\ "a" \in DOMAIN validation.ret
Rejected ==
    /\ "a" \notin DOMAIN validation.ret
    /\ parameters[1].required => validation.exc = "ValueError"
ExactType(ty) == CASE ty = "string" -> "str" [] ty = "boolean" -> "bool" [] OTHER -> ty

TypeBoundary ==
    LET ty == parameters[1].param_type
        v == kwargs["a"] IN
    /\ (ty = "integer" /\ v.t = "float" /\ v.n % 2 # 0) => Rejected
    /\ (ty = "float" /\ v.t = "int") => Accepted
    /\ ty \in {"string", "boolean", "list", "dict"} =>
          IF v.t = ExactType(ty) THEN Accepted ELSE Rejected

ExtraKeysIgnored ==
    /\ called = "validate" =>
          validation = validate_parameters(parameters, Restrict(kwargs, Declared))
    /\ called = "execute" =>
          /\ execution = execute(parameters, Restrict(kwargs, Declared), run_raises)
          /\ DOMAIN execution.run.args \subseteq Declared

\* C9 witness: a call carrying the undeclared key x was executed with success.
ExecutedWithExtraKey ==
    /\ called = "execute"
    /\ "x" \in DOMAIN kwargs /\ "x" \notin Declared
    /\ execution.ret.success /\ execution.run.called
    /\ Len(parameters) = 2

\* C22: every ToolExecutionResult returned by execute has error null when
\* success is true, and result null and a non-null error when success is
\* false; execution_time is set in both cases.
ResultXorError ==
    called = "execute" =>
        /\ execution.ret.success
             => execution.ret.error = NoError
        /\ ~execution.ret.success
             => /\ execution.ret.result = NoResult
                /\ execution.ret.error # NoError
        /\ execution.ret.execution_time = "elapsed"

\* C22 witness: validation passed, _run raised and a failed result came back
FailedAfterValidation ==
    /\ called = "execute" /\ run_raises /\ execution.run.called
    /\ ~execution.ret.success
    /\ execution.ret.result = NoResult
    /\ execution.ret.error = <<"Tool execution failed", "RuntimeError">>

\* the caller's value when present and non-null, otherwise the declared default
ResolvedValue(param) ==
    IF Get(kwargs, param.name) # None THEN Get(kwargs, param.name) ELSE param.default_value
\* validate_parameters reported the parameter as offending
Reported(param) == \E j \in 1..Len(validation.errors) : validation.errors[j] = param.name

\* C34 (as stated): the value validated for a declared parameter is the
\* caller's when present and non-null, otherwise the declared default, and a
\* required parameter with a non-null default validates when the caller omits
\* it.
RequiredDefaultAlwaysValidates ==
    called = "validate" =>
        \A i \in 1..Len(parameters) :
            LET param == parameters[i] IN
            /\ param.name \in DOMAIN validation.ret
                 => validation.ret[param.name] = ResolvedValue(param)
            /\ (param.required /\ param.default_value # None
                  /\ param.name \notin DOMAIN kwargs)
                 => ~Reported(param)

\* C34 (amended): the same, the omitted required parameter validating when
\* its default itself passes the parameter's type, range and choices checks;
\* the validated mapping then holds the default.
RequiredValidDefaultValidates ==
    called = "validate" =>
        \A i \in 1..Len(parameters) :
            LET param == parameters[i] IN
            /\ param.name \in DOMAIN validation.ret
                 => validation.ret[param.name] = ResolvedValue(param)
            /\ (param.required /\ param.default_value # None
                  /\ param.name \notin DOMAIN kwargs
                  /\ validate_value(param, param.default_value))
                 => /\ ~Reported(param)
                    /\ validation.exc = "none"
                         => /\ param.name \in DOMAIN validation.ret
                            /\ validation.ret[param.name] = param.default_value

\* C34 witness: the call omits the required integer "a" whose default is 4
\* and gives "b"; validation returns a mapping that holds the default for
\* "a" and the caller's value for "b"
OmittedRequiredGotDefault ==
    /\ called = "validate" /\ validation.exc = "none"
    /\ Len(parameters) = 2
    /\ parameters[1].required /\ parameters[1].param_type = "integer"
    /\ parameters[1].default_value = PyInt(4)
    /\ "a" \notin DOMAIN kwargs /\ "b" \in DOMAIN kwargs
    /\ validation.ret["a"] = PyInt(4)
    /\ validation.ret["b"] = kwargs["b"]

(***************************************************************************)
(* The parser on its own: a text is chosen, then it is parsed.             *)
(***************************************************************************)
ParserLines ==
    {"'''yaml", "'''", "Working on it.", "thoughts: >", "  reasoning",
     "name: pass_result", "params: {result: X}", "name: tool_a"}
Texts == UNION {[1..n -> ParserLines] : n \in 0..MaxLines}

ToolIdle ==
    /\ parameters = <<>>
    /\ kwargs = EmptyDict
    /\ run_raises = FALSE
    /\ called = "none"
    /\ validation = NoValidation
    /\ execution = NoExecution
    /\ NoAgents

ParserInit ==
    /\ response \in Texts
    /\ yaml_blocks = <<>>
    /\ commands = <<>>
    /\ parsed = FALSE
    /\ ToolIdle
    /\ AgentIdle
    /\ BridgeIdle
    /\ ClanIdle

\* the parsing part of _process_response: extract the blocks, load each,
\* keep the usable ones
ParseResponse ==
    /\ ~parsed
    /\ parsed' = TRUE
    /\ yaml_blocks' = extract_yaml_blocks(response)
    /\ commands' = CommandsOf(extract_yaml_blocks(response))
    /\ UNCHANGED response
    /\ UNCHANGED <<toolVars, agentVars, bridgeVars, clanVars>>

ParserNext == ParseResponse

ParserSpec == ParserInit /\ [][ParserNext]_vars

(***************************************************************************)
(* Properties of the parser (under ParserSpec)                             *)
(***************************************************************************)
Count(lines, P(_)) == Cardinality({i \in 1..Len(lines) : P(lines[i])})

\* the text holds exactly one fenced yaml block: one opening fence, one
\* closing fence after it, and between them a well-formed command block with
\* name pass_result and params {result: X} (an optional thoughts entry first)
PassResultBodies ==
    {<<"name: pass_result", "params: {result: X}">>,
     <<"thoughts: >", "name: pass_result", "params: {result: X}">>,
     <<"thoughts: >", "  reasoning", "name: pass_result", "params: {result: X}">>}
OneFencedPassResult(lines) ==
    /\ Count(lines, StartsFence) = 2
    /\ \E i, j \in 1..Len(lines) :
          /\ i < j
          /\ lines[i] = "'''yaml" /\ lines[j] = "'''"
          /\ SubSeq(lines, i + 1, j - 1) \in PassResultBodies

\* C10: from a text with exactly one fenced yaml block naming pass_result with
\* params {result: X} the parser recovers exactly one command block, with name
\* pass_result and params mapping result to X.
OneFencedBlockRecovered ==
    (parsed /\ OneFencedPassResult(response)) =>
        /\ Len(yaml_blocks) = 1
        /\ Len(commands) = 1
        /\ commands[1].name = "pass_result"
        /\ commands[1].params = YMap("result" :> "X")

\* C10 witness: such a text, with prose before the block, has been parsed.
FencedPassResultParsed ==
    /\ parsed /\ OneFencedPassResult(response)
    /\ response[1] = "Working on it."
    /\ Len(commands) = 1

\* the text has no fence and holds one bare command: a thoughts: > entry, its
\* indented continuation lines, then the top-level keys name: tool_a and params
BareToolCommand(lines) ==
    /\ Count(lines, StartsFence) = 0
    /\ Count(lines, HasThoughts) = 1
    /\ \E i, j \in 1..Len(lines) :
          /\ i < j /\ j + 1 <= Len(lines)
          /\ lines[i] = "thoughts: >"
          /\ \A k \in (i + 1)..(j - 1) : IsIndented(lines[k])
          /\ lines[j] = "name: tool_a"
          /\ IsKeyLine(lines[j + 1]) /\ KeyLines[lines[j + 1]].key = "params"

\* C11 (as stated): from a text without a fence that holds a bare thoughts: >
\* entry followed by the top-level keys name: tool_a and params, the parser
\* recovers exactly one command block, and its name is tool_a.
BareBlockRecovered ==
    (parsed /\ BareToolCommand(response)) =>
        /\ Len(commands) = 1
        /\ commands[1].name = "tool_a"

(***************************************************************************)
(* The agent: one call of unleash by the caller, and what it leads to.     *)
(***************************************************************************)
AgentInit ==
    /\ max_iterations \in 0..MaxIter
    /\ ask_user \in BOOLEAN
    /\ output_file \in BOOLEAN
    /\ current_iteration = 0
    /\ user_task = ""
    /\ stack = <<>>
    /\ llm_calls = 0
    /\ file = NoFile
    /\ returned = NoOutcome
    /\ task_result = NoOutcome
    /\ emitted_final = FALSE
    /\ transcript = <<>>
    /\ raised = 0

\* the caller calls unleash(task)
Unleash ==
    /\ stack = <<>> /\ ~task_result.done
    /\ \E init_raises \in BOOLEAN : Enter(<<>>, "task", init_raises)
    /\ UNCHANGED <<max_iterations, ask_user, output_file, llm_calls, file, emitted_final, transcript>>
    /\ UNCHANGED <<toolVars, parserVars, bridgeVars, clanVars>>

\* the turn of a loop whose while condition (line 295) is not tested
ModelAnswersUnguarded(answers, most) ==
    /\ stack # <<>> /\ Top.pc = "loop"
    /\ llm_calls < most
    /\ current_iteration' = current_iteration + 1
    /\ llm_calls' = llm_calls + 1
    /\ \E r \in answers :
          /\ stack' = WithTop([Top EXCEPT !.pc = "dispatch", !.response = r,
                                          !.blocks = extract_yaml_blocks(r),
                                          !.tool_executed = FALSE])
          /\ emitted_final' = (emitted_final \/ is_task_complete(r))
          /\ transcript' = Append(transcript, r)
    /\ UNCHANGED <<returned, task_result, raised>>
    /\ UNCHANGED <<max_iterations, ask_user, output_file, user_task, file>>
    /\ UNCHANGED <<toolVars, parserVars, bridgeVars, clanVars>>

\* one turn of the while loop of _run_task_loop up to the parsing of the
\* response: the counter is incremented, the model is invoked and either
\* raises or answers, and the blocks of the answer are extracted
ModelAnswers(answers, most) ==
    /\ stack # <<>> /\ Top.pc = "loop"
    /\ current_iteration < max_iterations
    /\ llm_calls < most
    /\ current_iteration' = current_iteration + 1
    /\ llm_calls' = llm_calls + 1
    /\ \/ /\ FailTop("LLMError", current_iteration + 1)
          /\ transcript' = Append(transcript, LLMRaised)
          /\ UNCHANGED emitted_final
       \/ \E r \in answers :
             /\ stack' = WithTop([Top EXCEPT !.pc = "dispatch", !.response = r,
                                             !.blocks = extract_yaml_blocks(r),
                                             !.tool_executed = FALSE])
             /\ emitted_final' = (emitted_final \/ is_task_complete(r))
             /\ transcript' = Append(transcript, r)
             /\ UNCHANGED <<returned, task_result, raised>>
    /\ UNCHANGED <<max_iterations, ask_user, output_file, user_task, file>>
    /\ UNCHANGED <<toolVars, parserVars, bridgeVars, clanVars>>

\* a turn of a model that answers with one of Responses
ModelTurn == ModelAnswers(Responses, MaxCalls)

\* the for loop of _process_response handles its next block
Dispatch ==
    /\ stack # <<>> /\ Top.pc = "dispatch" /\ Top.blocks # <<>>
    /\ \E input \in {"answer", "interrupt", "eof"}, run_fails \in BOOLEAN,
          init_raises \in BOOLEAN, overflow \in {"at the call", "in the callee"} :
          LET block == Head(Top.blocks)
              eff == process_block(block, ask_user, output_file, input, run_fails)
              rest == [Top EXCEPT !.blocks = Tail(@),
                                  !.passed = (@ \/ IsPassResult(block))] IN
          /\ file' = IF eff.save # <<>> THEN SavedRecord(user_task, eff.save[1]) ELSE file
          /\ transcript' = IF eff.call /\ eff.task = "Tool response"
                            THEN Append(transcript, ToolSucceeded) ELSE transcript
          /\ IF eff.exc # "none"
             THEN \* the exception leaves _process_response and the loop
                  /\ FailTop(eff.exc, current_iteration)
                  /\ UNCHANGED <<current_iteration, user_task>>
             ELSE IF ~eff.call
             THEN /\ stack' = WithTop([rest EXCEPT !.tool_executed = (@ \/ eff.ret)])
                  /\ UNCHANGED <<current_iteration, user_task, returned, task_result, raised>>
             ELSE IF Len(stack) < MaxDepth
             THEN \* self.unleash(...): the continuation
                  Enter(WithTop(rest), eff.task, init_raises)
             ELSE IF overflow = "in the callee"
             THEN \* RecursionError inside the callee's try: it returns a failure
                  /\ current_iteration' = 0
                  /\ user_task' = eff.task
                  /\ raised' = raised + 1
                  /\ ReturnTo(WithTop(rest), unleash_except("RecursionError", 0))
             ELSE IF eff.task = "Tool response"
             THEN \* RecursionError at the call, caught at line 503
                  /\ stack' = WithTop(rest)
                  /\ UNCHANGED <<current_iteration, user_task, returned, task_result, raised>>
             ELSE \* RecursionError at the call in _handle_ask_user: not caught there
                  /\ FailTop("RecursionError", current_iteration)
                  /\ UNCHANGED <<current_iteration, user_task>>
    /\ UNCHANGED <<max_iterations, ask_user, output_file, llm_calls, emitted_final>>
    /\ UNCHANGED <<toolVars, parserVars, bridgeVars, clanVars>>

\* the turn is over and the loop goes on (line 314 does not break)
TurnContinue ==
    /\ stack # <<>> /\ Top.pc = "dispatch" /\ Top.blocks = <<>>
    /\ ~(~Top.tool_executed /\ is_task_complete(Top.response))
    /\ stack' = WithTop([Top EXCEPT !.pc = "loop"])
    /\ UNCHANGED <<max_iterations, ask_user, output_file, current_iteration, user_task,
                   llm_calls, file, returned, task_result, emitted_final, transcript,
                   raised>>
    /\ UNCHANGED <<toolVars, parserVars, bridgeVars, clanVars>>

\* what follows the loop in _execute_task: the response is saved if an output
\* file is set, and the TaskResult is returned
Finish ==
    /\ file' = IF output_file THEN SavedRecord(user_task, Top.response) ELSE file
    /\ ReturnTo(Callers, execute_task_return(Top.response, current_iteration))
    /\ UNCHANGED <<max_iterations, ask_user, output_file, current_iteration, user_task,
                   llm_calls, emitted_final, transcript, raised>>
    /\ UNCHANGED <<toolVars, parserVars, bridgeVars, clanVars>>

\* the turn is over, no block was executed and the response looks complete:
\* break (lines 314-315)
TurnBreak ==
    /\ stack # <<>> /\ Top.pc = "dispatch" /\ Top.blocks = <<>>
    /\ ~Top.tool_executed /\ is_task_complete(Top.response)
    /\ Finish

\* the while condition fails: the iteration ceiling
LoopExit ==
    /\ stack # <<>> /\ Top.pc = "loop"
    /\ current_iteration >= max_iterations
    /\ Finish

Next == Unleash \/ ModelTurn \/ Dispatch \/ TurnContinue \/ TurnBreak \/ LoopExit

Init == AgentInit /\ ToolIdle /\ ParserIdle /\ BridgeIdle /\ ClanIdle

Spec == Init /\ [][Next]_vars

\* the same agent with a model that answers with one of BlockResponses
ModelTurnBlocks == ModelAnswers(BlockResponses, MaxBlockCalls)

BlocksNext ==
    Unleash \/ ModelTurnBlocks \/ Dispatch \/ TurnContinue \/ TurnBreak \/ LoopExit

BlocksSpec == Init /\ [][BlocksNext]_vars

(***************************************************************************)
(* The agent's loop as a process that goes on for ever: the same steps,    *)
(* with a model that is never out of answers, tools and a user that always *)
(* return, and no record kept of the calls made (llm_calls, transcript and *)
(* raised stay as they are).  Every step that can be taken is taken.       *)
(***************************************************************************)
\* one turn of the while loop of _run_task_loop up to the parsing of the
\* response, the model answering with one of Responses
LoopTurn ==
    /\ stack # <<>> /\ Top.pc = "loop"
    /\ current_iteration < max_iterations
    /\ current_iteration' = current_iteration + 1
    /\ \E r \in Responses :
          /\ stack' = WithTop([Top EXCEPT !.pc = "dispatch", !.response = r,
                                          !.blocks = extract_yaml_blocks(r),
                                          !.tool_executed = FALSE])
          /\ emitted_final' = (emitted_final \/ is_task_complete(r))
    /\ UNCHANGED <<max_iterations, ask_user, output_file, user_task, file, returned,
                   task_result, llm_calls, transcript, raised>>
    /\ UNCHANGED <<toolVars, parserVars, bridgeVars, clanVars>>

\* the for loop of _process_response handles its next block; input() gives
\* an answer and _initialize_llm returns
LoopDispatch ==
    /\ stack # <<>> /\ Top.pc = "dispatch" /\ Top.blocks # <<>>
    /\ \E run_fails \in BOOLEAN, overflow \in {"at the call", "in the callee"} :
          LET block == Head(Top.blocks)
              eff == process_block(block, ask_user, output_file, "answer", run_fails)
              rest == [Top EXCEPT !.blocks = Tail(@),
                                  !.passed = (@ \/ IsPassResult(block))] IN
          /\ file' = IF eff.save # <<>> THEN SavedRecord(user_task, eff.save[1]) ELSE file
          /\ IF eff.exc # "none"
             THEN \* the exception leaves the loop: lines 196-210
                  /\ ReturnTo(Callers, unleash_except(eff.exc, current_iteration))
                  /\ UNCHANGED <<current_iteration, user_task>>
             ELSE IF ~eff.call
             THEN /\ stack' = WithTop([rest EXCEPT !.tool_executed = (@ \/ eff.ret)])
                  /\ UNCHANGED <<current_iteration, user_task, returned, task_result>>
             ELSE IF Len(stack) < MaxDepth
             THEN \* self.unleash(...): lines 191-192 and _execute_task up to the loop
                  /\ current_iteration' = 0
                  /\ user_task' = eff.task
                  /\ stack' = Append(WithTop(rest), NewFrame(eff.task))
                  /\ UNCHANGED <<returned, task_result>>
             ELSE IF overflow = "in the callee"
             THEN \* RecursionError inside the callee's try: it returns a failure
                  /\ current_iteration' = 0
                  /\ user_task' = eff.task
                  /\ ReturnTo(WithTop(rest), unleash_except("RecursionError", 0))
             ELSE IF eff.task = "Tool response"
             THEN \* RecursionError at the call, caught at line 503
                  /\ stack' = WithTop(rest)
                  /\ UNCHANGED <<current_iteration, user_task, returned, task_result>>
             ELSE \* RecursionError at the call in _handle_ask_user: not caught there
                  /\ ReturnTo(Callers, unleash_except("RecursionError", current_iteration))
                  /\ UNCHANGED <<current_iteration, user_task>>
    /\ UNCHANGED <<max_iterations, ask_user, output_file, emitted_final, llm_calls,
                   transcript, raised>>
    /\ UNCHANGED <<toolVars, parserVars, bridgeVars, clanVars>>

LoopNext ==
    Unleash \/ LoopTurn \/ LoopDispatch \/ TurnContinue \/ TurnBreak \/ LoopExit

LoopSpec == Init /\ [][LoopNext]_vars /\ WF_vars(LoopNext)

(***************************************************************************)
(* Properties of the execution loop.                                       *)
(***************************************************************************)
\* C2 (as stated): when no response holds pass_result or a completion phrase
\* and no exception is raised, an unleash call with max_iterations = N returns
\* after exactly N model invocations.
ExactlyNInvocations ==
    (task_result.done /\ ~emitted_final /\ raised = 0) => llm_calls = max_iterations

\* C3 (as stated): once a pass_result block has been dispatched in a task
\* attempt, the model is not invoked again in that attempt.
PassResultTerminal ==
    [][(stack # <<>> /\ Top.passed) => llm_calls' = llm_calls]_vars

\* the result of an unleash call that ended in its except clause
FailedResult(out) ==
    /\ ~out.ret.success
    /\ out.ret.error # NoError
    /\ out.ret.execution_time = "elapsed"

\* C4: no exception escapes an unleash call; whenever an exception reaches
\* the boundary of an unleash call, that call returns a TaskResult with
\* success=false that carries the elapsed time and the iteration count.
UnleashNeverRaises ==
    /\ [](returned.exc = "none")
    /\ [][raised' > raised =>
            /\ returned'.done
            /\ returned'.exc = "none"
            /\ FailedResult(returned')
            /\ returned'.ret.iterations_used = current_iteration']_vars
\* C4 witness: the model raised in the first turn of the caller's unleash
\* call, and the caller received a failed result with iteration count 1.
ModelRaisedAtTopLevel ==
    /\ task_result.done
    /\ raised = 1
    /\ llm_calls = 1
    /\ task_result.ret.iterations_used = 1
    /\ task_result.ret.error = <<"Task execution failed", "LLMError">>

\* C5 (as stated): when an exception reached an unleash boundary anywhere in
\* the task attempt, the result handed to the original caller is a failure.
ExceptionFailsAttempt ==
    (task_result.done /\ raised > 0) => ~task_result.ret.success

\* the happy path: the first response calls tool_a with valid arguments, the
\* tool succeeds, and the second response is a pass_result block
HappyPath ==
    /\ Len(transcript) >= 3
    /\ transcript[1] = Fenced(<<"name: tool_a", "params: {k: v}">>)
    /\ transcript[2] = ToolSucceeded
    /\ transcript[3] = Fenced(<<"name: pass_result", "params: {result: X}">>)

\* C12 (as stated): on the happy path the model is invoked twice in total and
\* unleash returns success=true.
HappyPathTwoTurns ==
    HappyPath =>
        /\ llm_calls = 2
        /\ task_result.done => task_result.ret.success

\* the block names a tool that is neither built in nor in the registry
IsUnknownTool(block) ==
    /\ Usable(block)
    /\ CommandOf(block).name \notin {"ask_user", "pass_result"} \cup DOMAIN ToolInstances
\* the response of the frame's current turn holds such a block
UnknownToolTurn(f) ==
    \E i \in 1..Len(extract_yaml_blocks(f.response)) :
        IsUnknownTool(extract_yaml_blocks(f.response)[i])
\* the frame's turn is over: every block of the response has been handled
TurnOver(f) == f.pc = "dispatch" /\ f.blocks = <<>>

RECURSIVE FinalResponse(_)
FinalResponse(t) ==
    IF t = <<>> THEN <<>>
    ELSE IF t[Len(t)] \in Responses THEN t[Len(t)]
    ELSE FinalResponse(SubSeq(t, 1, Len(t) - 1))

\* C14 (as stated): when the caller's unleash call returns and no response
\* held pass_result or a completion phrase and nothing raised, so that the
\* iterations were exhausted, the result is a success that carries the final
\* model response and iterations_used = max_iterations.
ExhaustionIsSuccess ==
    (task_result.done /\ ~emitted_final /\ raised = 0) =>
        /\ task_result.ret.success
        /\ task_result.ret.iterations_used = max_iterations
        /\ task_result.ret.result = FinalResponse(transcript)

\* C20: dispatching pass_result is the only path that writes the output
\* file: a step that changes the file is the dispatch of a pass_result block.
OnlyPassResultWritesFile ==
    [][file' # file
         => /\ stack # <<>>
            /\ Top.pc = "dispatch"
            /\ Top.blocks # <<>>
            /\ IsPassResult(Head(Top.blocks))]_vars

\* the next step of the for loop dispatches a pass_result block that writes
\* the output file
PassResultWrites ==
    /\ stack # <<>> /\ Top.pc = "dispatch" /\ Top.blocks # <<>>
    /\ IsPassResult(Head(Top.blocks))
    /\ process_block(Head(Top.blocks), ask_user, output_file, "answer", FALSE).save # <<>>

\* C21: when an output file is configured, the record written on a
\* pass_result dispatch holds the agent identity, the task given to the
\* top-level unleash call and the pass_result result string, and replaces
\* what the file held.
PassResultRecordHasOriginalTask ==
    [][PassResultWrites
         => file' = SavedRecord("task",
                       process_block(Head(Top.blocks), ask_user, output_file,
                                     "answer", FALSE).save[1])]_vars

\* s is what is left of t after some of its first elements are taken away
IsSuffix(s, t) ==
    Len(s) <= Len(t) /\ s = SubSeq(t, Len(t) - Len(s) + 1, Len(t))

\* C25: within one model turn the recovered blocks are dispatched strictly
\* in the order in which the parser recovered them: the blocks a turn has
\* still to dispatch are always the rest of the recovered list, a step
\* takes exactly the first of them, and while a continuation started by a
\* block runs, the turns below it dispatch nothing.
BlocksInOrder ==
    /\ [](\A i \in 1..Len(stack) :
            stack[i].pc = "dispatch"
              => IsSuffix(stack[i].blocks, extract_yaml_blocks(stack[i].response)))
    /\ [][\A i \in 1..Len(stack) :
            (i <= Len(stack') /\ stack'[i].blocks # stack[i].blocks)
              => /\ i = Len(stack)
                 /\ stack[i].pc = "dispatch" => stack'[i].blocks = Tail(stack[i].blocks)]_vars

\* the first block of a two-block response started a continuation, which is
\* dispatching; the second block is still to be dispatched
SecondBlockWaits ==
    /\ Len(stack) = 2
    /\ stack[1].response = Fenced(<<"name: tool_a", "params: {k: v}">>)
                              \o Fenced(<<"name: pass_result", "params: {result: X}">>)
    /\ stack[1].blocks = <<<<"name: pass_result", "params: {result: X}">>>>
    /\ stack[2].pc = "dispatch"

\* the block names a registered tool and gives it a mapping: execute is called
IsToolCall(block) ==
    /\ Usable(block)
    /\ CommandOf(block).name \in DOMAIN ToolInstances
    /\ IsMapping(CommandOf(block).params)
\* the response of the frame's current turn holds such a block
ToolCallTurn(f) ==
    \E i \in 1..Len(extract_yaml_blocks(f.response)) :
        IsToolCall(extract_yaml_blocks(f.response)[i])
\* the next step of the for loop dispatches a tool call, with room for a
\* continuation
ToolCallNext ==
    /\ stack # <<>> /\ Top.pc = "dispatch" /\ Top.blocks # <<>>
    /\ IsToolCall(Head(Top.blocks))
    /\ Len(stack) < MaxDepth

\* C26: when a block names a registered tool and execute succeeds, the loop
\* entry point is re-invoked once with the tool's result text as the new
\* task; when execute fails there is no recursion and no retry, the for loop
\* takes the next block, and after the turn the loop goes on to the next
\* iteration while iterations remain.
ToolDispatchedOnce ==
    /\ [][ToolCallNext
            => IF transcript' = Append(transcript, ToolSucceeded)
               THEN /\ user_task' = "Tool response"
                    /\ \/ stack' = Append(WithTop([Top EXCEPT !.blocks = Tail(@)]),
                                          NewFrame("Tool response"))
                       \/ /\ returned' = unleash_except("LLMInitError", 0)
                          /\ stack' = WithTop([Top EXCEPT !.blocks = Tail(@),
                                                          !.tool_executed = TRUE])
               ELSE /\ transcript' = transcript
                    /\ stack' = WithTop([Top EXCEPT !.blocks = Tail(@)])
                    /\ UNCHANGED <<user_task, current_iteration, llm_calls, file,
                                   raised, returned, task_result>>]_vars
    /\ [][(stack # <<>> /\ TurnOver(Top) /\ ToolCallTurn(Top) /\ ~Top.tool_executed
             /\ current_iteration < max_iterations)
            => stack' = WithTop([Top EXCEPT !.pc = "loop"])]_vars

\* C27: the completion-phrase heuristic ends the loop only on a turn in
\* which no block was dispatched: a turn that ends the loop at line 315
\* while iterations remain is not a turn in which a registered tool was
\* executed.
HeuristicOnlyWithoutDispatch ==
    [][(stack # <<>> /\ TurnOver(Top) /\ current_iteration < max_iterations
          /\ Len(stack') < Len(stack))
         => ~ToolCallTurn(Top)]_vars

\* the next step of the for loop dispatches a command whose params value is
\* not a mapping
NonMappingNext ==
    /\ stack # <<>> /\ Top.pc = "dispatch" /\ Top.blocks # <<>>
    /\ Usable(Head(Top.blocks))
    /\ ~IsMapping(CommandOf(Head(Top.blocks)).params)

\* C28: a command block whose params value is not a mapping never makes the
\* task attempt fail, whichever verb or tool it names: nothing is raised,
\* the block is passed over and the for loop takes the next block.
NonMappingParamsTolerated ==
    [][NonMappingNext
         => /\ raised' = raised
            /\ Len(stack') = Len(stack)
            /\ stack'[Len(stack)].blocks = Tail(Top.blocks)
            /\ stack'[Len(stack)].pc = "dispatch"]_vars

\* the response of the frame's current turn has no block that can be dispatched
NoUsableBlock(f) == CommandsOf(extract_yaml_blocks(f.response)) = <<>>

\* C29: a candidate block that fails to parse, parses to something other
\* than a mapping, or lacks a name key is discarded without raising and
\* without any other effect, and the for loop takes the next block; a turn
\* with zero usable blocks raises nothing either: the loop goes on, or ends
\* by the completion heuristic.
UnusableBlocksDiscarded ==
    /\ [][(stack # <<>> /\ Top.pc = "dispatch" /\ Top.blocks # <<>>
             /\ ~Usable(Head(Top.blocks)))
            => /\ stack' = WithTop([Top EXCEPT !.blocks = Tail(@)])
               /\ UNCHANGED <<raised, returned, task_result, file, transcript,
                              user_task, current_iteration, llm_calls>>]_vars
    /\ [][(stack # <<>> /\ TurnOver(Top) /\ NoUsableBlock(Top))
            => /\ raised' = raised
               /\ IF is_task_complete(Top.response)
                  THEN returned' = execute_task_return(Top.response, current_iteration)
                  ELSE stack' = WithTop([Top EXCEPT !.pc = "loop"])]_vars

\* C29 witness: the three blocks that cannot be dispatched have been
\* discarded and the pass_result block after them has been dispatched
PassResultAfterDiscards ==
    /\ Len(stack) = 1
    /\ Len(extract_yaml_blocks(Top.response)) = 4
    /\ Len(CommandsOf(extract_yaml_blocks(Top.response))) = 1
    /\ TurnOver(Top) /\ Top.passed /\ Top.tool_executed
    /\ raised = 0

\* the next step of the for loop dispatches an ask_user block with a mapping
\* or no params, with room for a continuation
AskUserNext ==
    /\ stack # <<>> /\ Top.pc = "dispatch" /\ Top.blocks # <<>>
    /\ Usable(Head(Top.blocks))
    /\ CommandOf(Head(Top.blocks)).name = "ask_user"
    /\ IsMapping(CommandOf(Head(Top.blocks)).params)
    /\ Len(stack) < MaxDepth

\* C30: an ask_user dispatch of an agent that accepts input re-invokes the
\* loop entry point with the input as the new task; when ask_user is
\* disabled, or the read is interrupted by KeyboardInterrupt, the block
\* counts as not dispatched (no continuation, no executed tool) and the for
\* loop goes on with the next block instead of ending the attempt.
AskUserDispatch ==
    /\ [][(AskUserNext /\ ~ask_user)
            => /\ stack' = WithTop([Top EXCEPT !.blocks = Tail(@)])
               /\ UNCHANGED <<raised, returned, task_result, user_task,
                              current_iteration, llm_calls, file>>]_vars
    /\ [][(AskUserNext /\ ask_user)
            => \/ \* the input was read: unleash(user_response)
                  /\ user_task' = "user answer"
                  /\ current_iteration' = 0
                  /\ \/ stack' = Append(WithTop([Top EXCEPT !.blocks = Tail(@)]),
                                        NewFrame("user answer"))
                     \/ /\ returned' = unleash_except("LLMInitError", 0)
                        /\ stack' = WithTop([Top EXCEPT !.blocks = Tail(@),
                                                        !.tool_executed = TRUE])
               \/ \* KeyboardInterrupt
                  /\ stack' = WithTop([Top EXCEPT !.blocks = Tail(@)])
                  /\ UNCHANGED <<raised, returned, task_result, user_task,
                                 current_iteration, llm_calls, file>>
               \/ \* any other exception of input()
                  /\ raised' = raised + 1
                  /\ returned' = unleash_except("EOFError", current_iteration)]_vars

\* C30 witness: the agent accepts input, the read for the ask_user block
\* was interrupted, and the for loop is at the block after it
InterruptedAskUserPassedOver ==
    /\ ask_user
    /\ Len(stack) = 1
    /\ Top.response = Fenced(<<"name: ask_user", "params: {question: Q}">>)
                         \o Fenced(<<"name: tool_a", "params: {k: v}">>)
    /\ Top.pc = "dispatch"
    /\ Top.blocks = <<<<"name: tool_a", "params: {k: v}">>>>
    /\ ~Top.tool_executed
    /\ user_task = "task" /\ raised = 0

\* C31 (as stated): during one top-level unleash call with max_iterations = N
\* the model is invoked at most N times in total, the invocations made inside
\* the continuations that follow tool results and user answers included.
InvocationsWithinCeiling == llm_calls <= max_iterations

\* C32 (as stated): with a finite max_iterations, a model that answers and
\* tools and a user that always return, every top-level unleash call
\* eventually returns a TaskResult.
UnleashEventuallyReturns == <>(task_result.done)

\* C33: in every reachable state 0 <= current_iteration <= max_iterations,
\* during and after the continuations too, and the iterations_used of every
\* TaskResult that an unleash call returned is at most max_iterations.
IterationWithinCeiling ==
    /\ current_iteration \in 0..max_iterations
    /\ returned.ret.iterations_used \in 0..max_iterations
    /\ task_result.ret.iterations_used \in 0..max_iterations
\* C33 witness: a continuation has run to the ceiling and returned to a loop
\* that is still in progress, reporting as many iterations as the ceiling
ContinuationReturnedAtCeiling ==
    /\ stack # <<>> /\ returned.done
    /\ max_iterations > 0
    /\ current_iteration = max_iterations
    /\ returned.ret.iterations_used = max_iterations

(***************************************************************************)
(* The bridged tool on its own: a registry, a tool and a call are chosen,  *)
(* then _run or execute is called.                                         *)
(***************************************************************************)
ClientIds == {"time", "api"}
BridgeSchemas ==
    {NoSchema, ForeignSchema(<<Property("q", "type" :> "string")>>, {"q"})}
BridgeTools(schema) ==
    {mcp_init(n, "Test", schema, c, "original_tool") :
        n \in {"test-tool", "time"}, c \in ClientIds \cup {"missing_client"}}

BridgeInit ==
    /\ mcp_clients \in SUBSET ClientIds
    /\ mcp_schema \in BridgeSchemas
    /\ mcp_tool \in BridgeTools(mcp_schema)
    /\ mcp_kwargs \in {EmptyDict, "q" :> PyStr}
    /\ mcp_submitted = <<>>
    /\ mcp_call = NoCall
    /\ mcp_loop = "running"
    /\ ToolIdle /\ ParserIdle /\ AgentIdle /\ ClanIdle

\* tool._run(**kwargs)
BridgeRun ==
    /\ mcp_call = NoCall
    /\ \E provider \in ProviderOutcomes :
          LET r == mcp_run(mcp_tool, mcp_clients, mcp_kwargs, provider) IN
          /\ mcp_call' = [op |-> "run", exc |-> r.exc, message |-> r.message,
                          tool_name |-> r.tool_name]
          /\ mcp_submitted' = mcp_submitted \o r.submitted
    /\ UNCHANGED <<mcp_clients, mcp_schema, mcp_tool, mcp_kwargs, mcp_loop>>
    /\ UNCHANGED <<toolVars, parserVars, agentVars, clanVars>>

\* tool.execute(**kwargs)
BridgeExecute ==
    /\ mcp_call = NoCall
    /\ \E provider \in ProviderOutcomes :
          LET r == mcp_execute(mcp_tool, mcp_clients, mcp_kwargs, provider) IN
          /\ mcp_call' = [op |-> "execute", exc |-> r.exc, ret |-> r.ret]
          /\ mcp_submitted' = mcp_submitted \o r.submitted
    /\ UNCHANGED <<mcp_clients, mcp_schema, mcp_tool, mcp_kwargs, mcp_loop>>
    /\ UNCHANGED <<toolVars, parserVars, agentVars, clanVars>>

BridgeNext == BridgeRun \/ BridgeExecute

BridgeSpec == BridgeInit /\ [][BridgeNext]_vars

(***************************************************************************)
(* Properties of the bridged tool (under BridgeSpec)                       *)
(***************************************************************************)
\* the text holds the part
Names(message, part) == \E i \in 1..Len(message) : message[i] = part
SessionAbsent == mcp_tool.client_id \notin mcp_clients

\* C15 (as stated): execute on a bridged tool whose session key is absent
\* from the registry raises nothing and returns a failed result whose error
\* message names the locally exposed tool.
AbsentSessionErrorNamesTool ==
    (mcp_call.op = "execute" /\ SessionAbsent) =>
        /\ mcp_call.exc = "none"
        /\ ~mcp_call.ret.success
        /\ Names(mcp_call.ret.error, mcp_tool.name)

Call(op, pc, kw) ==
    [op |-> op, pc |-> pc, kw |-> kw, future |-> "none", exc |-> "none", message |-> <<>>,
     tool_name |-> "", original_error |-> "", ret |-> NoResult,
     result |-> ToolExecutionResult(FALSE, NoResult, NoError)]

\* an exception of Python itself: it has no tool_name and no original_error
PyException(kind, message) ==
    [exc |-> kind, message |-> message, tool_name |-> "", original_error |-> "",
     ret |-> NoResult]

\* out leaves _run (an exception, or with exc = "none" the returned value):
\* the caller of _run gets it as it is; execute (tool.py, lines 166-189)
\* turns it into a ToolExecutionResult
Leave(call, out) ==
    IF call.op = "run"
    THEN [call EXCEPT !.pc = "done", !.exc = out.exc, !.message = out.message,
                      !.tool_name = out.tool_name,
                      !.original_error = out.original_error, !.ret = out.ret]
    ELSE [call EXCEPT !.pc = "done",
                      !.result =
                              IF out.exc # "none"
                              THEN ToolExecutionResult(FALSE, NoResult,
                                       <<"Tool execution failed">> \o out.message)
                              ELSE ToolExecutionResult(TRUE, out.ret, NoError)]

RaceInit ==
    /\ mcp_clients \in SUBSET ClientIds
    /\ mcp_schema \in BridgeSchemas
    /\ mcp_tool \in BridgeTools(mcp_schema)
    /\ mcp_kwargs \in {EmptyDict, "q" :> PyStr}
    /\ mcp_submitted = <<>>
    /\ mcp_call = Call("none", "idle", EmptyDict)
    /\ mcp_loop = "running"
    /\ ToolIdle /\ ParserIdle /\ AgentIdle /\ ClanIdle

\* tool._run(**kwargs) or tool.execute(**kwargs) is called; execute validates
\* the arguments first (tool.py, line 168)
CallStart ==
    /\ mcp_call.op = "none"
    /\ \E op \in {"run", "execute"} :
          LET v == validate_parameters(mcp_tool.parameters, mcp_kwargs) IN
          mcp_call' = IF op = "run" THEN Call("run", "check", mcp_kwargs)
                      ELSE IF v.exc = "none" THEN Call("execute", "check", v.ret)
                      ELSE Leave(Call("execute", "validate", mcp_kwargs),
                                 PyException("ValueError", ValidationMessage(v.errors)))
    /\ UNCHANGED <<mcp_clients, mcp_schema, mcp_tool, mcp_kwargs, mcp_submitted, mcp_loop>>
    /\ UNCHANGED <<toolVars, parserVars, agentVars, clanVars>>

\* lines 93-97: if self.client_id not in self.mcp_manager.clients: raise
CallCheck ==
    /\ mcp_call.pc = "check"
    /\ mcp_call' = IF mcp_tool.client_id \notin mcp_clients
                   THEN Leave(mcp_call,
                              MCPToolExecutionError(
                                  <<"MCP client '", mcp_tool.client_id, "' not found">>,
                                  mcp_tool.name, ""))
                   ELSE [mcp_call EXCEPT !.pc = "lookup"]
    /\ UNCHANGED <<mcp_clients, mcp_schema, mcp_tool, mcp_kwargs, mcp_submitted, mcp_loop>>
    /\ UNCHANGED <<toolVars, parserVars, agentVars, clanVars>>

\* line 99: client = self.mcp_manager.clients[self.client_id]
CallLookup ==
    /\ mcp_call.pc = "lookup"
    /\ mcp_call' = IF mcp_tool.client_id \notin mcp_clients
                   THEN Leave(mcp_call, PyException("KeyError", <<mcp_tool.client_id>>))
                   ELSE [mcp_call EXCEPT !.pc = "submit"]
    /\ UNCHANGED <<mcp_clients, mcp_schema, mcp_tool, mcp_kwargs, mcp_submitted, mcp_loop>>
    /\ UNCHANGED <<toolVars, parserVars, agentVars, clanVars>>

\* lines 102-105: asyncio.run_coroutine_threadsafe(..., self.mcp_manager.loop);
\* on a closed loop it raises RuntimeError
CallSubmit ==
    /\ mcp_call.pc = "submit"
    /\ IF mcp_loop = "closed"
       THEN /\ mcp_call' = Leave(mcp_call,
                                 PyException("RuntimeError", <<"Event loop is closed">>))
            /\ UNCHANGED mcp_submitted
       ELSE /\ mcp_call' = [mcp_call EXCEPT !.pc = "wait", !.future = "pending"]
            /\ mcp_submitted' = Append(mcp_submitted,
                                       Submission(mcp_tool.mcp_tool_name, mcp_call.kw))
    /\ UNCHANGED <<mcp_clients, mcp_schema, mcp_tool, mcp_kwargs, mcp_loop>>
    /\ UNCHANGED <<toolVars, parserVars, agentVars, clanVars>>

\* a wait that gives up on a future that is still pending
CallWaitTimesOut ==
    /\ mcp_call.pc = "wait"
    /\ mcp_call' = Leave(mcp_call,
                         MCPToolExecutionError(
                             <<"Failed to execute MCP tool '", mcp_tool.name, "': ",
                               "timeout">>, mcp_tool.name, "timeout"))
    /\ UNCHANGED <<mcp_clients, mcp_schema, mcp_tool, mcp_kwargs, mcp_submitted, mcp_loop>>
    /\ UNCHANGED <<toolVars, parserVars, agentVars, clanVars>>

\* lines 107-114: future.result() returns or raises once the future is done
CallWait ==
    /\ mcp_call.pc = "wait"
    /\ mcp_call.future \in {"result", "exception"}
    /\ mcp_call' = IF mcp_call.future = "exception"
                   THEN Leave(mcp_call,
                              MCPToolExecutionError(
                                  <<"Failed to execute MCP tool '", mcp_tool.name, "': ",
                                    "provider error">>, mcp_tool.name, "provider error"))
                   ELSE Leave(mcp_call,
                              [PyException("none", <<>>) EXCEPT !.ret = "provider output"])
    /\ UNCHANGED <<mcp_clients, mcp_schema, mcp_tool, mcp_kwargs, mcp_submitted, mcp_loop>>
    /\ UNCHANGED <<toolVars, parserVars, agentVars, clanVars>>

\* the owner's loop runs the submitted coroutine to its end: the provider
\* returns or raises
LoopRuns ==
    /\ mcp_loop = "running"
    /\ mcp_call.future = "pending"
    /\ \E provider \in ProviderOutcomes :
          mcp_call' = [mcp_call EXCEPT !.future = IF provider = "returns" THEN "result"
                                                  ELSE "exception"]
    /\ UNCHANGED <<mcp_clients, mcp_schema, mcp_tool, mcp_kwargs, mcp_submitted, mcp_loop>>
    /\ UNCHANGED <<toolVars, parserVars, agentVars, clanVars>>

\* the owner of the registry removes a session, starts one (a restart is a
\* removal followed by a start) or closes its event loop
OwnerActs ==
    /\ \/ /\ \E c \in mcp_clients : mcp_clients' = mcp_clients \ {c}
          /\ UNCHANGED mcp_loop
       \/ /\ \E c \in ClientIds \ mcp_clients : mcp_clients' = mcp_clients \cup {c}
          /\ UNCHANGED mcp_loop
       \/ /\ mcp_loop = "running"
          /\ mcp_loop' = "closed"
          /\ UNCHANGED mcp_clients
    /\ UNCHANGED <<mcp_schema, mcp_tool, mcp_kwargs, mcp_submitted, mcp_call>>
    /\ UNCHANGED <<toolVars, parserVars, agentVars, clanVars>>

\* the steps of the calling thread
CallSteps == CallStart \/ CallCheck \/ CallLookup \/ CallSubmit \/ CallWait

RaceNext ==
    \/ CallStart \/ CallCheck \/ CallLookup \/ CallSubmit \/ CallWait
    \/ LoopRuns \/ OwnerActs

\* the calling thread is scheduled; nothing is assumed of the owner or of
\* its loop
RaceSpec == RaceInit /\ [][RaceNext]_vars /\ WF_vars(CallSteps)

RunFailuresAreToolErrors ==
    (mcp_call.op = "run" /\ mcp_call.pc = "done" /\ mcp_call.exc # "none") =>
        /\ mcp_call.exc = "MCPToolExecutionError"
        /\ mcp_call.tool_name = mcp_tool.name

\* the owner's loop runs every call submitted to it to completion or failure
LoopRunsEverySubmittedCall ==
    [](mcp_call.future = "pending" => <>(mcp_call.future # "pending"))

\* C39: a bridged invocation submits its call once and the calling thread
\* leaves the wait only when the provider's coroutine has completed or
\* failed (there is no timeout: while the future is pending the caller stays
\* blocked); provided the loop runs every submitted call to completion or
\* failure, every bridged execute eventually returns an Execution Result.
BridgedCallBlocksUntilDone ==
    /\ [](/\ Len(mcp_submitted) <= 1
          /\ mcp_call.pc = "wait" => Len(mcp_submitted) = 1)
    /\ [][(mcp_call.pc = "wait" /\ mcp_call'.pc # "wait")
            => /\ mcp_call.future \in {"result", "exception"}
               /\ mcp_call'.pc = "done"
               /\ mcp_submitted' = mcp_submitted]_vars
    /\ LoopRunsEverySubmittedCall
         => [](mcp_call.op = "execute"
                 => <>(mcp_call.pc = "done" /\ mcp_call.exc = "none"))
\* C39 witness: execute submitted original_tool once, waited for the
\* provider's output and returned it in a successful result
ExecuteReturnedProviderOutput ==
    /\ mcp_call.op = "execute" /\ mcp_call.pc = "done"
    /\ mcp_call.future = "result"
    /\ mcp_submitted = <<Submission("original_tool", mcp_call.kw)>>
    /\ mcp_call.result = ToolExecutionResult(TRUE, "provider output", NoError)

(***************************************************************************)
(* The construction of a bridged tool: a foreign schema is chosen, then    *)
(* MCPTool(...) is called with it.                                         *)
(***************************************************************************)
\* the type tags of the foreign schemas, recognized or not
ForeignTags ==
    {"string", "integer", "number", "boolean", "array", "object", "float", "null"}
\* what a property of a foreign schema says: a type, a default, both or none
ForeignInfos ==
    {<<>>} \cup {"type" :> t : t \in ForeignTags}
           \cup {"default" :> PyInt(1)}
           \cup {("type" :> t) @@ ("default" :> PyInt(1)) : t \in ForeignTags}
ForeignProperties == {Property(n, i) : n \in {"message", "count"}, i \in ForeignInfos}
ForeignSchemas ==
    {ForeignSchema(ps, req) :
        ps \in {<<>>} \cup {<<p>> : p \in ForeignProperties}
                      \cup {pq \in ForeignProperties \X ForeignProperties :
                                pq[1].name # pq[2].name},
        req \in {{}, {"message"}, {"count", "other"}}}

ConstructInit ==
    /\ mcp_clients = {}
    /\ mcp_schema \in ForeignSchemas
    /\ mcp_tool = NoTool
    /\ mcp_kwargs = EmptyDict
    /\ mcp_submitted = <<>>
    /\ mcp_call = NoCall
    /\ mcp_loop = "running"
    /\ ToolIdle /\ ParserIdle /\ AgentIdle /\ ClanIdle

\* MCPTool(name, description, parameters, client_id, mcp_tool_name, mcp_manager)
Construct ==
    /\ mcp_call = NoCall
    /\ \E n \in {"test-tool", "time"}, c \in ClientIds :
          /\ mcp_tool' = mcp_init(n, "Test tool description", mcp_schema, c, "original_tool")
          /\ mcp_call' = [op |-> "init", name |-> n, description |-> "Test tool description"]
    /\ UNCHANGED <<mcp_clients, mcp_schema, mcp_kwargs, mcp_submitted, mcp_loop>>
    /\ UNCHANGED <<toolVars, parserVars, agentVars, clanVars>>

ConstructNext == Construct

ConstructSpec == ConstructInit /\ [][ConstructNext]_vars

(***************************************************************************)
(* Properties of the construction (under ConstructSpec)                    *)
(***************************************************************************)
\* the fixed mapping, as pairs of foreign tag and native type
TypeTable ==
    {<<"string", "string">>, <<"integer", "integer">>, <<"number", "float">>,
     <<"boolean", "boolean">>, <<"array", "list">>, <<"object", "dict">>}
Recognized == {pair[1] : pair \in TypeTable}

Addressees == {"Manager", "Worker", "worker", "Nobody"}
Messages == {"do X"}
Replies == {"X is done"}
ClanTopFrame == clan_stack[Len(clan_stack)]
ClanBelow == SubSeq(clan_stack, 1, Len(clan_stack) - 1)

ClanInit ==
    /\ clan_pc = "constructed"
    /\ members \in (SUBSET Agents) \ {{}}
    /\ plan = NoPlan
    /\ member_plans = [a \in Agents |-> NoPlan]
    /\ plan_calls = 0
    /\ current_round = 0
    /\ clan_stack = <<>>
    /\ manager_result = NoReturn
    /\ clan_result = NoOutcome
    /\ ToolIdle /\ ParserIdle /\ AgentIdle /\ BridgeIdle

\* Clan.unleash up to line 140: self.plan = self._generate_plan()
GeneratePlan ==
    /\ clan_pc = "constructed"
    /\ \E outcome \in PlanOutcomes :
          LET g == generate_plan(outcome) IN
          /\ plan_calls' = plan_calls + g.calls
          /\ IF g.exc # "none"
             THEN /\ clan_pc' = "planning failed"
                  /\ clan_result' = clan_except(g.exc, current_round)
                  /\ plan' = plan
             ELSE /\ clan_pc' = "planned"
                  /\ plan' = g.plan
                  /\ clan_result' = clan_result
    /\ UNCHANGED <<members, member_plans, current_round, manager_result, clan_stack>>
    /\ UNCHANGED <<toolVars, parserVars, agentVars, bridgeVars>>

\* line 146: self._distribute_plan()
DistributePlan ==
    /\ clan_pc = "planned"
    /\ clan_pc' = "distributed"
    /\ member_plans' = distribute_plan(members, plan, member_plans)
    /\ UNCHANGED <<members, plan, plan_calls, current_round, manager_result, clan_stack, clan_result>>
    /\ UNCHANGED <<toolVars, parserVars, agentVars, bridgeVars>>

\* line 152: self.manager.unleash(self.goal) is entered
StartManager ==
    /\ clan_pc = "distributed"
    /\ clan_pc' = "managing"
    /\ clan_stack' = <<AgentFrame(ManagerIdentity, "goal")>>
    /\ UNCHANGED <<members, plan, member_plans, plan_calls, current_round, manager_result, clan_result>>
    /\ UNCHANGED <<toolVars, parserVars, agentVars, bridgeVars>>

\* the running agent dispatches send_message{agent_name, message}
SendMessage ==
    /\ clan_pc = "managing" /\ ClanTopFrame.pc = "running"
    /\ Len(clan_stack) < MaxClanDepth
    /\ \E agent_name \in Addressees, message \in Messages :
          LET sender == [ClanTopFrame EXCEPT !.sent = [agent_name |-> agent_name,
                                                        message |-> message]]
              target == route(members, agent_name) IN
          clan_stack' = Append(ClanBelow, sender)
                          \o (IF target = <<>> THEN <<>>
                              ELSE <<AgentFrame(target[1], message)>>)
    /\ UNCHANGED <<clan_pc, members, plan, member_plans, plan_calls, current_round, manager_result,
                   clan_result>>
    /\ UNCHANGED <<toolVars, parserVars, agentVars, bridgeVars>>

\* the running agent's loop comes to its end with a text
AgentReturn ==
    /\ clan_pc = "managing" /\ ClanTopFrame.pc = "running"
    /\ \E reply \in Replies \cup {""}, ok \in BOOLEAN :
          clan_stack' = Append(ClanBelow, [ClanTopFrame EXCEPT !.pc = "returned",
                                                                 !.out = reply,
                                                                 !.ok = ok])
    /\ UNCHANGED <<clan_pc, members, plan, member_plans, plan_calls, current_round, manager_result,
                   clan_result>>
    /\ UNCHANGED <<toolVars, parserVars, agentVars, bridgeVars>>

\* the target's loop has returned: the sender goes on with what it returned
Deliver ==
    /\ clan_pc = "managing" /\ ClanTopFrame.pc = "returned"
    /\ Len(clan_stack) > 1
    /\ clan_stack' = [ClanBelow EXCEPT ![Len(ClanBelow)].context = ClanTopFrame.out]
    /\ UNCHANGED <<clan_pc, members, plan, member_plans, plan_calls, current_round, manager_result,
                   clan_result>>
    /\ UNCHANGED <<toolVars, parserVars, agentVars, bridgeVars>>

\* manager.unleash returns: lines 154-162
ManagerReturns ==
    /\ clan_pc = "managing" /\ ClanTopFrame.pc = "returned"
    /\ Len(clan_stack) = 1
    /\ clan_pc' = "manager returned"
    /\ clan_stack' = <<>>
    /\ manager_result' = [returned |-> TRUE, success |-> ClanTopFrame.ok,
                          result |-> ClanTopFrame.out]
    /\ clan_result' = clan_success(current_round)
    /\ UNCHANGED <<members, plan, member_plans, plan_calls, current_round>>
    /\ UNCHANGED <<toolVars, parserVars, agentVars, bridgeVars>>

\* an exception surfaces from manager.unleash: lines 164-175
ManagerRaises ==
    /\ clan_pc = "managing" /\ ClanTopFrame.pc = "running"
    /\ clan_pc' = "manager raised"
    /\ clan_stack' = <<>>
    /\ clan_result' = clan_except("AgentError", current_round)
    /\ UNCHANGED <<members, plan, member_plans, plan_calls, current_round, manager_result>>
    /\ UNCHANGED <<toolVars, parserVars, agentVars, bridgeVars>>

ClanNext ==
    \/ GeneratePlan \/ DistributePlan \/ StartManager
    \/ SendMessage \/ AgentReturn \/ Deliver
    \/ ManagerReturns \/ ManagerRaises

ClanSpec == ClanInit /\ [][ClanNext]_vars

\* C17: in every Clan.unleash call the planning model invocation happens
\* exactly once, before the plan is distributed and before the manager's
\* loop starts: no step distributes the plan or enters the manager's loop
\* before the one invocation, a finished call has made exactly one, and
\* while the manager's loop runs no step invokes planning again or changes
\* the clan's plan or any member's copy of it.
PlanningExactlyOnce ==
    /\ [](plan_calls <= 1)
    /\ [](clan_pc \in {"distributed", "managing"} => plan_calls = 1)
    /\ [](clan_result.done => plan_calls = 1)
    /\ [][(member_plans' # member_plans \/ clan_stack' # <<>>) => plan_calls = 1]_vars
    /\ [][clan_pc = "managing"
            => /\ plan_calls' = plan_calls
               /\ plan' = plan
               /\ member_plans' = member_plans]_vars

\* a message has been delivered and answered inside the manager's loop, and
\* every member of the roster still holds the one plan
PlanKeptThroughLoop ==
    /\ clan_pc = "managing"
    /\ Len(clan_stack) = 1
    /\ clan_stack[1].context \in Replies
    /\ plan_calls = 1
    /\ plan = <<"A delegates X to B", "B reports to A">>
    /\ \A a \in members : member_plans[a] = plan

\* C18: Clan.unleash ends by returning, never by raising, one of two
\* outcomes: success=true when the manager's loop returned without raising,
\* success=false with an error text when an exception surfaced from the
\* manager's loop; either outcome carries the elapsed time and the round
\* counter.
ClanTwoOutcomes ==
    /\ clan_result.done <=> clan_pc \in {"manager returned", "manager raised",
                                          "planning failed"}
    /\ clan_pc = "manager returned"
         => clan_result.ret.success /\ clan_result.ret.error = NoError
    /\ clan_pc = "manager raised"
         => ~clan_result.ret.success /\ clan_result.ret.error # NoError
    /\ clan_result.done
         => /\ clan_result.exc = "none"
            /\ clan_result.ret.execution_time = "elapsed"
            /\ clan_result.ret.iterations_used = current_round

\* an exception has surfaced from the manager's loop and the call has ended
ClanFailedInManagerLoop ==
    /\ clan_pc = "manager raised"
    /\ clan_result.done
    /\ ~clan_result.ret.success

\* C19: in a clan, send_message is routed by exact identity match against
\* the member roster and delivered by a synchronous run of the target's
\* loop with the message as its task: a delivery puts exactly the named
\* member's loop on top of the sender, no name that is not on the roster is
\* delivered, a sender below a running loop takes no step until that loop
\* has returned, and the string it returned is the sender's new context.
SendMessageSynchronous ==
    [][(clan_pc = "managing" /\ clan_pc' = "managing")
         => LET n == Len(clan_stack)
                m == Len(clan_stack')
                sent == clan_stack'[n].sent
            IN /\ m \in {n - 1, n, n + 1}
               /\ \A i \in 1..(n - 1) :
                     i <= m => \/ clan_stack'[i] = clan_stack[i]
                               \/ /\ i = m /\ m = n - 1
                                  /\ clan_stack[n].pc = "returned"
               /\ m = n + 1
                    => /\ sent.agent_name \in members
                       /\ clan_stack'[m] = AgentFrame(sent.agent_name, sent.message)
                       /\ clan_stack'[n] = [clan_stack[n] EXCEPT !.sent = sent]
               /\ (m = n /\ clan_stack'[n].sent # clan_stack[n].sent)
                    => clan_stack'[n].sent.agent_name \notin members
               /\ m = n - 1
                    => /\ clan_stack[n].pc = "returned"
                       /\ clan_stack'[m] = [clan_stack[m] EXCEPT
                                               !.context = clan_stack[n].out]]_vars

\* the manager sent "do X" to the worker, the worker's loop ran to its end
\* and the manager now holds what it returned
ReplyReachedSender ==
    /\ clan_pc = "managing"
    /\ Len(clan_stack) = 1
    /\ clan_stack[1].agent = ManagerIdentity
    /\ clan_stack[1].sent = [agent_name |-> "Worker", message |-> "do X"]
    /\ clan_stack[1].context = "X is done"
    /\ clan_stack[1].pc = "running"

\* C35 (as stated): when the manager's loop starts, the manager and every
\* agent of the roster hold the clan's generated plan.
ManagerAndRosterHoldPlan ==
    clan_pc = "managing" =>
        \A a \in members \cup {ManagerIdentity} : member_plans[a] = plan

\* C36: Clan.unleash reports success whenever manager.unleash returns,
\* whatever TaskResult it returned: the clan's result carries neither the
\* manager's success flag nor its text, and a clan run fails only when an
\* exception was raised in planning, in distribution or in the manager's call.
ClanSuccessIgnoresManager ==
    /\ manager_result.returned
         => /\ clan_result.done /\ clan_result.exc = "none"
            /\ clan_result.ret.success
            /\ clan_result.ret.result = <<"Clan successfully completed goal">>
            /\ clan_result.ret.error = NoError
    /\ (clan_result.done /\ ~clan_result.ret.success)
         => /\ ~manager_result.returned
            /\ clan_pc \in {"planning failed", "manager raised"}
\* C36 witness: the manager's loop returned a failed TaskResult with an empty
\* text and the clan reported success
ManagerFailedClanSucceeded ==
    /\ clan_pc = "manager returned"
    /\ manager_result.returned /\ ~manager_result.success /\ manager_result.result = ""
    /\ clan_result.ret.success

(***************************************************************************)
(* Tools attached to several agents (single_agent.py, lines 101-103 and    *)
(* 113-128).  A tool is handed to an agent either as a class or as an      *)
(* object the caller made.  objects lists the tool objects in the order    *)
(* they were made; an object is known by its position in the list.  Every  *)
(* object keeps its own ledger, set by its constructor, as the budget      *)
(* tracker of examples/clan-agent_example.py (lines 88-122) does.          *)
(***************************************************************************)
MaxLedger == 2

Unset == [kind |-> "unset", id |-> 0]
NoTools == [kind |-> "none", id |-> 0]
TheClass == [kind |-> "class", id |-> 0]
GivenObject(k) == [kind |-> "instance", id |-> k]

\* tool(): the constructor gives the new object a ledger of its own
NewObject(by) == [by |-> by, ledger |-> 0]

\* create_tools (lines 22-53): a class is instantiated once more, only to
\* be described in the prompt
create_tools(rawtool, objs) ==
    IF rawtool.kind = "class"
        THEN Append(objs, NewObject("create_tools"))
        ELSE objs

\* a registry that keeps one object per class and hands it to every agent
initialize_tools_shared(rawtool, objs, raises) ==
    LET made == {k \in 1..Len(objs) : objs[k].by = "_initialize_tools"}
    IN  CASE rawtool.kind = "class" /\ raises ->
                [objs |-> objs, instance |-> 0]
          [] rawtool.kind = "class" /\ ~raises /\ made # {} ->
                [objs |-> objs, instance |-> CHOOSE k \in made : TRUE]
          [] rawtool.kind = "class" /\ ~raises /\ made = {} ->
                [objs |-> Append(objs, NewObject("_initialize_tools")),
                 instance |-> Len(objs) + 1]
          [] rawtool.kind = "instance" ->
                [objs |-> objs, instance |-> rawtool.id]
          [] OTHER -> [objs |-> objs, instance |-> 0]

\* _initialize_tools (lines 113-128): a class is instantiated, an object is
\* taken as it is; a constructor that raises leaves the registry empty
initialize_tools(rawtool, objs, raises) ==
    CASE rawtool.kind = "class" /\ raises ->
            [objs |-> objs, instance |-> 0]
      [] rawtool.kind = "class" /\ ~raises ->
            [objs |-> Append(objs, NewObject("_initialize_tools")),
             instance |-> Len(objs) + 1]
      [] rawtool.kind = "instance" ->
            [objs |-> objs, instance |-> rawtool.id]
      [] OTHER -> [objs |-> objs, instance |-> 0]

CallerMade == {k \in 1..Len(objects) : objects[k].by = "caller"}

\* the caller instantiates the tool itself, to pass the object on
MakeInstance ==
    /\ CallerMade = {}
    /\ objects' = Append(objects, NewObject("caller"))
    /\ UNCHANGED <<rawtools, tool_instances>>
    /\ UNCHANGED <<parameters, kwargs, run_raises, called, validation, execution>>
    /\ UNCHANGED <<parserVars, agentVars, bridgeVars, clanVars>>

\* Single_Agent.__init__ (lines 101-103).  A constructor that raises inside
\* create_tools aborts the construction of the agent and leaves no agent.
NewAgent(a) ==
    /\ rawtools[a] = Unset
    /\ \E rawtool \in {NoTools, TheClass} \cup {GivenObject(k) : k \in CallerMade},
          raises \in BOOLEAN :
          LET made == initialize_tools(rawtool, create_tools(rawtool, objects), raises)
          IN  /\ rawtools' = [rawtools EXCEPT ![a] = rawtool]
              /\ objects' = made.objs
              /\ tool_instances' = [tool_instances EXCEPT ![a] = made.instance]
    /\ UNCHANGED <<parameters, kwargs, run_raises, called, validation, execution>>
    /\ UNCHANGED <<parserVars, agentVars, bridgeVars, clanVars>>

\* _execute_custom_tool (lines 467-480): the registered object runs, and
\* the run adds to the ledger of that object
Invoke(a) ==
    /\ tool_instances[a] # 0
    /\ objects[tool_instances[a]].ledger < MaxLedger
    /\ objects' = [objects EXCEPT ![tool_instances[a]].ledger = @ + 1]
    /\ UNCHANGED <<rawtools, tool_instances>>
    /\ UNCHANGED <<parameters, kwargs, run_raises, called, validation, execution>>
    /\ UNCHANGED <<parserVars, agentVars, bridgeVars, clanVars>>

AttachInit ==
    /\ ToolIdle
    /\ ParserIdle
    /\ AgentIdle
    /\ BridgeIdle
    /\ ClanIdle

AttachNext ==
    \/ MakeInstance
    \/ \E a \in Agents : NewAgent(a)
    \/ \E a \in Agents : Invoke(a)

AttachSpec == AttachInit /\ [][AttachNext]_vars

(***************************************************************************)
(* Properties of attached tools (under AttachSpec)                         *)
(***************************************************************************)
\* two agents that were both given the class and both registered the tool
BothGivenTheClass(a, b) ==
    /\ a # b
    /\ rawtools[a] = TheClass
    /\ rawtools[b] = TheClass
    /\ tool_instances[a] # 0
    /\ tool_instances[b] # 0

\* C40: when the same tool class is attached to two agents, the two
\* registries hold different objects, and a step that changes the ledger of
\* the object of one agent leaves the ledger of the other agent's object as
\* it was.
ClassAttachedToolsAreIndependent ==
    /\ [](\A a, b \in Agents :
            BothGivenTheClass(a, b) => tool_instances[a] # tool_instances[b])
    /\ [][\A a, b \in Agents :
            (/\ BothGivenTheClass(a, b)
             /\ objects'[tool_instances[a]].ledger # objects[tool_instances[a]].ledger)
            => objects'[tool_instances[b]].ledger = objects[tool_instances[b]].ledger]_vars

InvokedThroughOneAgentOnly ==
    /\ BothGivenTheClass("Manager", "Worker")
    /\ objects[tool_instances["Manager"]].ledger = MaxLedger
    /\ objects[tool_instances["Worker"]].ledger = 0

====
